---- MODULE Spec2Model ----
(***************************************************************************)
(* The antenna sweep tools: the sweep alignment and combination pipeline   *)
(* (process_csv_data / process_all_csvs), the batch loops around it, the   *)
(* radiation-pattern metric engine and the memoised loader in front of it. *)
(*                                                                         *)
(* Numbers.  Input cells are integers.  A computed float is modelled as an *)
(* exact rational <<n, d>> in lowest terms with d > 0; the float NaN is    *)
(* <<0, 0>> (the only division by zero the pipeline can perform is 0/0).   *)
(* Indices keep the source's 0-based numbering; TLA+ sequences are 1-based *)
(* so element i of a numpy array a is a[i+1].                              *)
(***************************************************************************)
EXTENDS Integers, Sequences, FiniteSets, TLC

VARIABLES
    \* one run of process_csv_data: its argument, whether it has run, the
    \* locals it set and the tuple it returned
    df, pc, loc, ret,
    \* one dataset under the two statistics engines: the angle and total
    \* field columns, the reference power, and what each engine reported
    m_angles, m_field, m_iso, m_web, m_desk,
    \* the arrays in the visualizer's memory, by name: the columns of the
    \* dataset's table and the arrays the engine has allocated
    m_arrays,
    \* the Streamlit 'Process All Files' handler: the loaded files, where
    \* the handler is, the loop index, the local results dictionary and
    \* st.session_state.results
    all_files, s_pc, s_idx, results, session_results,
    \* the three sources all_files is put together from on every run of the
    \* script: the uploader widget's files, st.session_state.url_files and
    \* st.session_state.zip_files
    uploaded_files, url_files, zip_files,
    \* the desktop batch processor: the folder's files, the list of names
    \* it iterates, the loop index and what it printed for each file
    folder, csv_files, d_idx, d_log,
    \* the Streamlit visualizer: the st.cache_data store of
    \* load_and_process_data, the arguments of the latest call from main,
    \* whether main has called yet, what the call handed back, and whether
    \* it was served from the store
    cache, req_files, req_iso, called, returned, hit,
    \* one call of calculate_hpbw: the angle array, the power array (whole
    \* dB), whether it was called, the locals it set and what it returned
    h_angles, h_P, h_called, h_loc, h_ret,
    \* the field combination on its own: two field series of equal length
    \* and the total field computed from them in either order
    c_a, c_b, c_total

pipeVars == <<df, pc, loc, ret>>

metricVars == <<m_angles, m_field, m_iso, m_web, m_desk, m_arrays>>

streamlitVars == <<all_files, s_pc, s_idx, results, session_results,
                   uploaded_files, url_files, zip_files>>

desktopVars == <<folder, csv_files, d_idx, d_log>>

cacheVars == <<cache, req_files, req_iso, called, returned, hit>>

hpbwVars == <<h_angles, h_P, h_called, h_loc, h_ret>>

combineVars == <<c_a, c_b, c_total>>

vars == <<df, pc, loc, ret, m_angles, m_field, m_iso, m_web, m_desk, m_arrays,
          all_files, s_pc, s_idx, results, session_results,
          uploaded_files, url_files, zip_files,
          folder, csv_files, d_idx, d_log,
          cache, req_files, req_iso, called, returned, hit,
          h_angles, h_P, h_called, h_loc, h_ret,
          c_a, c_b, c_total>>

(***************************************************************************)
(* Bounds of the model.                                                    *)
(***************************************************************************)
\* longest raw table over the full alphabet of samples
MaxRows == 5
\* longest raw table over the small alphabet (long second sweeps)
MaxWinRows == 8
\* most samples of a dataset handed to the statistics engines
MaxSamples == 4
\* most files of one batch
MaxFiles == 3
\* most files loaded into the visualizer at once
MaxLoad == 2
\* most samples of a power series handed to calculate_hpbw
MaxHpbwLen == 5
\* most files of a list handed to the loader on its first run
MaxList == 3
\* most samples of the two field series that are combined
MaxCombine == 3
\* files one source (uploader, URL list, ZIP archive) holds in a session
MaxSource == 1

(***************************************************************************)
(* Arithmetic helpers.                                                     *)
(***************************************************************************)
Abs(n) == IF n < 0 THEN -n ELSE n

RECURSIVE GCD(_, _)
GCD(a, b) == IF b = 0 THEN a ELSE GCD(b, a % b)

NaN == <<0, 0>>

IsNaN(q) == q[2] = 0

Norm(n, d) ==
    IF d = 0 THEN NaN
    ELSE LET g == GCD(Abs(n), Abs(d))
             s == IF d < 0 THEN -1 ELSE 1
         IN  <<(s * n) \div g, (s * d) \div g>>

FromInt(n) == <<n, 1>>

RAdd(p, q) == IF IsNaN(p) \/ IsNaN(q) THEN NaN
              ELSE Norm(p[1] * q[2] + q[1] * p[2], p[2] * q[2])

RSub(p, q) == IF IsNaN(p) \/ IsNaN(q) THEN NaN
              ELSE Norm(p[1] * q[2] - q[1] * p[2], p[2] * q[2])

RMul(p, q) == IF IsNaN(p) \/ IsNaN(q) THEN NaN
              ELSE Norm(p[1] * q[1], p[2] * q[2])

RDiv(p, q) == IF IsNaN(p) \/ IsNaN(q) THEN NaN
              ELSE Norm(p[1] * q[2], p[2] * q[1])

\* p < q for two numbers (any comparison with NaN is false)
RLt(p, q) == ~IsNaN(p) /\ ~IsNaN(q) /\ p[1] * q[2] < q[1] * p[2]

SetMin(S) == CHOOSE m \in S : \A x \in S : m <= x

Min2(a, b) == IF a < b THEN a ELSE b

RECURSIVE SumSeq(_)
SumSeq(s) == IF s = <<>> THEN 0 ELSE Head(s) + SumSeq(Tail(s))

RECURSIVE IntPow10(_)
IntPow10(k) == IF k = 0 THEN 1 ELSE 10 * IntPow10(k - 1)

RECURSIVE SortedSeq(_)
SortedSeq(S) == IF S = {} THEN <<>>
                ELSE LET m == SetMin(S) IN <<m>> \o SortedSeq(S \ {m})

\* a[i] of a Python/numpy array, negative indices counting from the end
PyIndex(a, i) == IF i < 0 THEN a[Len(a) + i + 1] ELSE a[i + 1]

\* a[lo:hi] of a Python/numpy array
PySlice(a, lo, hi) == SubSeq(a, lo + 1, Min2(hi, Len(a)))

(***************************************************************************)
(* The sweep pipeline: process_csv_data.                                   *)
(***************************************************************************)
\* a break test that also takes a repeated angle for a reset
brk_indices_le(angles) ==
    {i \in 0 .. Len(angles) - 2 : PyIndex(angles, i + 1) - PyIndex(angles, i) <= 0}

\* np.where(np.diff(angles) < 0)[0]
brk_indices(angles) ==
    {i \in 0 .. Len(angles) - 2 : PyIndex(angles, i + 1) - PyIndex(angles, i) < 0}

\* the break that is used when several exist
last_brk(brks) == CHOOSE m \in brks : \A x \in brks : x <= m

\* brk = brk_indices[0]
first_brk(brks) == SetMin(brks)

\* a first sweep that stops one sample short of the break
first_sweep_short(a, brk) == PySlice(a, 0, brk)

\* a first sweep that takes in the sample after the break as well
first_sweep_long(a, brk) == PySlice(a, 0, brk + 2)

\* ang1 = angles[:brk+1]; f1 = f1_dBuV_m[:brk+1]
first_sweep(a, brk) == PySlice(a, 0, brk + 1)

\* a second sweep that starts one sample after the reset sample
second_sweep_late(a, brk) == PySlice(a, brk + 2, Len(a))

\* ang2 = angles[brk+1:]; f2_dBuV_m = f1_dBuV_m[brk+1:]
second_sweep(a, brk) == PySlice(a, brk + 1, Len(a))

\* the number of leading rows of sweep 2 the cleanup loop ranges over
LeadingWindow == 5

\* a cleanup that scans the whole second sweep
keep_mask_unbounded(ang2, f2) ==
    [k \in 0 .. Len(ang2) - 1 |->
        ~(/\ k \in 1 .. Len(ang2) - 1
          /\ PyIndex(ang2, k) = PyIndex(ang2, k - 1)
          /\ PyIndex(f2, k) = PyIndex(f2, k - 1))]

\* a cleanup that compares a sample with its predecessor only when the
\* predecessor was itself kept
RECURSIVE keep_mask_after_kept_upto(_, _, _)
keep_mask_after_kept_upto(ang2, f2, n) ==
    IF n = 0 THEN [k \in 0 .. -1 |-> TRUE]
    ELSE LET m == keep_mask_after_kept_upto(ang2, f2, n - 1)
             k == n - 1
         IN  [i \in 0 .. k |->
                IF i < k THEN m[i]
                ELSE ~(/\ k \in 1 .. Min2(LeadingWindow, Len(ang2)) - 1
                       /\ m[k - 1]
                       /\ PyIndex(ang2, k) = PyIndex(ang2, k - 1)
                       /\ PyIndex(f2, k) = PyIndex(f2, k - 1))]

keep_mask_after_kept(ang2, f2) == keep_mask_after_kept_upto(ang2, f2, Len(ang2))

\* keep = np.ones(len(ang2)); for k in range(1, min(5, len(ang2))): ...
keep_mask(ang2, f2) ==
    [k \in 0 .. Len(ang2) - 1 |->
        ~(/\ k \in 1 .. Min2(LeadingWindow, Len(ang2)) - 1
          /\ PyIndex(ang2, k) = PyIndex(ang2, k - 1)
          /\ PyIndex(f2, k) = PyIndex(f2, k - 1))]

\* a[keep] : boolean-mask selection
RECURSIVE MaskFrom(_, _, _)
MaskFrom(a, keep, k) ==
    IF k >= Len(a) THEN <<>>
    ELSE (IF keep[k] THEN <<PyIndex(a, k)>> ELSE <<>>) \o MaskFrom(a, keep, k + 1)

Masked(a, keep) == MaskFrom(a, keep, 0)

\* the field values recorded at one angle, in row order
FieldsAt(ang2, f2, a) == SelectSeq([k \in 1 .. Len(ang2) |-> <<ang2[k], f2[k]>>],
                                   LAMBDA p : p[1] = a)

\* a grouping that keeps the first field recorded at each angle
groupby_first(ang2, f2) ==
    LET keys == SortedSeq({ang2[k] : k \in 1 .. Len(ang2)})
    IN  [angle |-> keys,
         field |-> [j \in 1 .. Len(keys) |->
                      FromInt(FieldsAt(ang2, f2, keys[j])[1][2])]]

\* df2.groupby('angle').mean().reset_index()
groupby_mean(ang2, f2) ==
    LET keys == SortedSeq({ang2[k] : k \in 1 .. Len(ang2)})
    IN  [angle |-> keys,
         field |-> [j \in 1 .. Len(keys) |->
                      LET rows == FieldsAt(ang2, f2, keys[j])
                      IN  Norm(SumSeq([k \in 1 .. Len(rows) |-> rows[k][2]]),
                               Len(rows))]]

\* np.searchsorted(x, v) : the number of entries of the sorted x below v
searchsorted(x, v) == Cardinality({k \in 1 .. Len(x) : x[k] < v})

\* ndarray.clip(lo, hi) = minimum(maximum(v, lo), hi)
clip(v, lo, hi) == Min2(IF v < lo THEN lo ELSE v, hi)

\* an interpolant that answers with the only point it has
call_linear_nearest(x, y, x_new) ==
    IF Len(x) = 1 THEN y[1]
    ELSE LET hi == clip(searchsorted(x, x_new), 1, Len(x) - 1)
             x_lo == FromInt(PyIndex(x, hi - 1))
             x_hi == FromInt(PyIndex(x, hi))
             y_lo == PyIndex(y, hi - 1)
             y_hi == PyIndex(y, hi)
         IN  RAdd(RMul(RDiv(RSub(y_hi, y_lo), RSub(x_hi, x_lo)),
                       RSub(FromInt(x_new), x_lo)), y_lo)

\* an interpolant that holds the end value outside the range of x
call_linear_clamped(x, y, x_new) ==
    LET hi == clip(searchsorted(x, x_new), 1, Len(x) - 1)
        lo == hi - 1
        x_lo == FromInt(PyIndex(x, lo))
        x_hi == FromInt(PyIndex(x, hi))
        y_lo == PyIndex(y, lo)
        y_hi == PyIndex(y, hi)
        slope == RDiv(RSub(y_hi, y_lo), RSub(x_hi, x_lo))
    IN  IF Len(x) >= 2 /\ x_new < x[1] THEN y[1]
        ELSE IF Len(x) >= 2 /\ x_new > x[Len(x)] THEN y[Len(x)]
        ELSE RAdd(RMul(slope, RSub(FromInt(x_new), x_lo)), y_lo)

\* interp1d._call_linear at one new abscissa
call_linear(x, y, x_new) ==
    LET hi == clip(searchsorted(x, x_new), 1, Len(x) - 1)
        lo == hi - 1
        x_lo == FromInt(PyIndex(x, lo))
        x_hi == FromInt(PyIndex(x, hi))
        y_lo == PyIndex(y, lo)
        y_hi == PyIndex(y, hi)
        slope == RDiv(RSub(y_hi, y_lo), RSub(x_hi, x_lo))
    IN  RAdd(RMul(slope, RSub(FromInt(x_new), x_lo)), y_lo)

\* interp1d(x, y, kind='linear', fill_value='extrapolate')(ang1); the
\* constructor raises ValueError when it is given fewer than minval entries
\* (minval is 1 in the interpolation library's current releases and was 2
\* in its early ones)
interp1d(x, y, ang1, minval) ==
    IF Len(x) < minval
    THEN [raised |-> TRUE, y_new |-> <<>>]
    ELSE [raised |-> FALSE,
          y_new |-> [k \in 1 .. Len(ang1) |-> call_linear(x, y, ang1[k])]]

MinvalChoices == {1, 2}

\* 10 ** ((f - 120) / 20), kept as the exponent of ten
V_per_m(f) == RDiv(RSub(f, FromInt(120)), FromInt(20))

\* 20 * log10(sqrt(v1**2 + v2**2)) + 120, kept as the two exponents of the
\* squares under the root, the sum being the same whichever term comes first
pythagorean_dB(e1, e2) ==
    LET s1 == RMul(FromInt(2), e1)
        s2 == RMul(FromInt(2), e2)
    IN  IF IsNaN(s1) \/ IsNaN(s2) THEN <<NaN, NaN>>
        ELSE IF RLt(s2, s1) THEN <<s2, s1>> ELSE <<s1, s2>>

\* v**2 for v = 10 ** e, as an exact number when 2 * e is whole (a field
\* that is a whole number of decades of power away from 120 dBuV/m)
V_squared(e) ==
    IF IsNaN(e) THEN NaN
    ELSE LET k == RMul(FromInt(2), e)[1]
         IN  IF k >= 0 THEN <<IntPow10(k), 1>> ELSE <<1, IntPow10(-k)>>

\* a combination that subtracts the second square from the first
difference_of_squares(v1_squared, v2_squared) == RSub(v1_squared, v2_squared)

\* f1_V_per_m**2 + f2_V_per_m**2, the first operand first
sum_of_squares(v1_squared, v2_squared) == RAdd(v1_squared, v2_squared)

\* total_dBuV_m = 20 * np.log10(np.sqrt(f1_V_per_m**2 + f2_V_per_m**2)) + 120
\* for two field series of equal length, the number under the root being
\* kept exactly
total_dBuV_m_of(f1, f2_on_1) ==
    [k \in 1 .. Len(f1) |->
        [twenty_log10_sqrt_of |->
            sum_of_squares(V_squared(V_per_m(f1[k])), V_squared(V_per_m(f2_on_1[k]))),
         plus |-> 120]]

None == [is_none |-> TRUE]

DataFrame(a, b, c, d) ==
    [is_none |-> FALSE,
     columns |-> <<"Angle", "Field1", "Field2", "TotalField">>,
     Angle |-> a, Field1 |-> b, Field2 |-> c, TotalField |-> d]

NoLocals ==
    [brk |-> -1, ang1 |-> <<>>, f1 |-> <<>>, ang2_raw |-> <<>>, f2_raw |-> <<>>,
     keep |-> <<>>, ang2 |-> <<>>, f2_dBuV_m |-> <<>>,
     df2_mean |-> [angle |-> <<>>, field |-> <<>>], f2_on_1 |-> <<>>]

\* The body of process_csv_data: the returned tuple and the locals it set.
process_csv_data(d, minval) ==
    IF d.ncols < 2
    THEN [ret |-> [data |-> None, success |-> FALSE, message |-> "Fewer than 2 columns"],
          loc |-> NoLocals]
    ELSE
    LET angles == d.angle
        f1_dBuV_m == d.field
        brks == brk_indices(angles)
    IN  IF brks = {}
        THEN [ret |-> [data |-> None, success |-> FALSE,
                       message |-> "No clear sweep break found"],
              loc |-> NoLocals]
        ELSE
        LET brk == first_brk(brks)
            ang1 == first_sweep(angles, brk)
            f1 == first_sweep(f1_dBuV_m, brk)
            ang2_raw == second_sweep(angles, brk)
            f2_raw == second_sweep(f1_dBuV_m, brk)
            keep == keep_mask(ang2_raw, f2_raw)
            ang2 == Masked(ang2_raw, keep)
            f2 == Masked(f2_raw, keep)
            df2_mean == groupby_mean(ang2, f2)
            interp == interp1d(df2_mean.angle, df2_mean.field, ang1, minval)
            locals == [brk |-> brk, ang1 |-> ang1, f1 |-> f1,
                       ang2_raw |-> ang2_raw, f2_raw |-> f2_raw,
                       keep |-> keep, ang2 |-> ang2, f2_dBuV_m |-> f2,
                       df2_mean |-> df2_mean, f2_on_1 |-> <<>>]
        IN  IF interp.raised
            THEN [ret |-> [data |-> None, success |-> FALSE,
                           message |-> "x and y arrays must have at least 2 entries"],
                  loc |-> locals]
            ELSE
            LET f2_on_1 == interp.y_new
                total_dBuV_m ==
                    [k \in 1 .. Len(ang1) |->
                        pythagorean_dB(V_per_m(FromInt(f1[k])), V_per_m(f2_on_1[k]))]
            IN  [ret |-> [data |-> DataFrame(ang1, f1, f2_on_1, total_dBuV_m),
                          success |-> TRUE, message |-> "Success"],
                 loc |-> [locals EXCEPT !.f2_on_1 = f2_on_1]]

(***************************************************************************)
(* The metric engine.  A linear power is the rational number of            *)
(* femtowatt-scale units: every linear power of the source is multiplied   *)
(* by 10^15 (so the floor 1e-15 is 1).  A value 10 * log10(q) is kept as   *)
(* the record [ten_log10_of |-> q], and 10 ** (x / 10) reads q back.       *)
(***************************************************************************)
\* 10 ** e for a whole exponent e, on the 10^15 scale
Pow10Scaled(e) ==
    LET k == e[1] + 15
    IN  IF k >= 0 THEN <<IntPow10(k), 1>> ELSE <<1, IntPow10(-k)>>

\* 10 * np.log10(q)
ten_log10(q) == [ten_log10_of |-> q]

\* 10 ** (x / 10)
ten_pow(x) == x.ten_log10_of

\* a conversion without the floor
floor_watts_off(P) == P

\* P_watts[P_watts < 1e-15] = 1e-15
floor_watts(P) == IF RLt(P, FromInt(1)) THEN FromInt(1) ELSE P

\* E_V_per_m**2 * 3**2 / 30, floored, for one cell; a nan cell stays nan,
\* the comparison of the floor being false for it
P_watts_of(field_dB) ==
    LET E_V_per_m == V_per_m(field_dB)
        E_squared == IF IsNaN(E_V_per_m) THEN NaN
                     ELSE Pow10Scaled(RMul(FromInt(2), E_V_per_m))
    IN  floor_watts(RDiv(RMul(E_squared, FromInt(3 * 3)), FromInt(30)))

\* P_dBm = 10 * np.log10(P_watts * 1000)
P_dBm_of(field_dBuV_m) ==
    [k \in 1 .. Len(field_dBuV_m) |->
        ten_log10(RMul(P_watts_of(field_dBuV_m[k]), FromInt(1000)))]

\* P_linear = 10 ** (P_dBm / 10) / 1000
P_linear_of(P_dBm) ==
    [k \in 1 .. Len(P_dBm) |-> RDiv(ten_pow(P_dBm[k]), FromInt(1000))]

RECURSIVE RSum(_)
RSum(s) == IF s = <<>> THEN FromInt(0) ELSE RAdd(Head(s), RSum(Tail(s)))

\* np.mean
mean(s) == RDiv(RSum(s), FromInt(Len(s)))

\* np.append(P_dBm, P_dBm[0])
append_first(P_dBm) == Append(P_dBm, P_dBm[1])

\* the positions (0-based) of the nan entries
nan_positions(P_dBm) == {i \in 0 .. Len(P_dBm) - 1 : IsNaN(ten_pow(P_dBm[i + 1]))}

\* np.argmax / np.max : the first index (0-based) of the largest entry,
\* and of the first nan when there is one (nan propagates)
argmax(P_dBm) ==
    IF nan_positions(P_dBm) # {} THEN SetMin(nan_positions(P_dBm))
    ELSE SetMin({i \in 0 .. Len(P_dBm) - 1 :
                   \A j \in 0 .. Len(P_dBm) - 1 :
                       ~RLt(ten_pow(P_dBm[i + 1]), ten_pow(P_dBm[j + 1]))})

\* np.min, likewise
argmin(P_dBm) ==
    IF nan_positions(P_dBm) # {} THEN SetMin(nan_positions(P_dBm))
    ELSE SetMin({i \in 0 .. Len(P_dBm) - 1 :
                   \A j \in 0 .. Len(P_dBm) - 1 :
                       ~RLt(ten_pow(P_dBm[j + 1]), ten_pow(P_dBm[i + 1]))})

\* the largest whole exponent e for which the double 10 ** e is 0.0
Float64Underflow == -324

\* 10 ** (iso_power_dBm / 10) / 1000 in double precision: the power of ten
\* underflows to 0.0 for a reference power far enough below zero (and for
\* float('-inf'))
P_iso_linear_of(iso_power_dBm) ==
    LET e == RDiv(FromInt(iso_power_dBm), FromInt(10))
    IN  IF ~RLt(FromInt(Float64Underflow), e)
        THEN FromInt(0)
        ELSE RDiv(Pow10Scaled(e), FromInt(1000))

\* the double +inf
Inf == <<1, 0>>

\* numpy's true division of doubles: a division by 0.0 does not raise, it
\* warns and yields nan (0/0) or an infinity
np_divide(p, q) ==
    IF p = Inf THEN Inf
    ELSE IF q = FromInt(0) THEN (IF p = FromInt(0) \/ p = NaN THEN NaN ELSE Inf)
    ELSE RDiv(p, q)

\* numpy's product of a double and a positive finite double
np_multiply(p, q) == IF p = Inf THEN Inf ELSE RMul(p, q)

NegInf == [ten_log10_of |-> FromInt(0)]

\* calculate_polarization_metrics (Streamlit visualizer)
calculate_polarization_metrics(angles_deg, field_dBuV_m, iso_power_dBm) ==
    LET P_dBm == P_dBm_of(field_dBuV_m)
        P_linear == P_linear_of(P_dBm)
        avg_power_linear == mean(P_linear)
        P_iso_linear == P_iso_linear_of(iso_power_dBm)
        efficiency == IF RLt(FromInt(0), P_iso_linear)
                      THEN RMul(RDiv(avg_power_linear, P_iso_linear), FromInt(100))
                      ELSE FromInt(0)
        max_dBm == PyIndex(P_dBm, argmax(P_dBm))
        min_dBm == PyIndex(P_dBm, argmin(P_dBm))
        avg_dBm == ten_log10(RMul(avg_power_linear, FromInt(1000)))
        range_dB == ten_log10(RDiv(ten_pow(max_dBm), ten_pow(min_dBm)))
        eff_dB == IF RLt(FromInt(0), efficiency)
                  THEN ten_log10(RDiv(efficiency, FromInt(100)))
                  ELSE NegInf
        peak_angle == PyIndex(angles_deg, argmax(P_dBm))
    IN  [P_dBm |-> P_dBm,
         stats |-> [Max |-> max_dBm, Min |-> min_dBm, Avg |-> avg_dBm,
                    Range |-> range_dB, PeakAngle |-> peak_angle,
                    Efficiency |-> efficiency, EfficiencyDB |-> eff_dB]]

\* the arrays of a table whose angle and field columns are given: .values
\* hands out the column's own array, not a copy
ColumnArrays(angles, field) ==
    [a \in {"df.Angle", "df.Field"} |-> IF a = "df.Angle" THEN angles ELSE field]

\* name = <expression> : the expression's result is a new array
allocate(arrays, name, contents) ==
    [a \in DOMAIN arrays \cup {name} |-> IF a = name THEN contents ELSE arrays[a]]

\* name[mask] = value : a store into the array the name is bound to
masked_store(arrays, name, mask, value) ==
    [arrays EXCEPT ![name] = [k \in 1 .. Len(@) |-> IF mask[k] THEN value ELSE @[k]]]

\* a floor that is stored into the column it was computed from
floored_in_the_column == "df.Field"

\* the array the floor is stored into: P_watts[P_watts < 1e-15] = 1e-15
floored_array == "P_watts"

\* what calculate_polarization_metrics does to the arrays in memory, the
\* field column being the array named field_dBuV_m
metrics_arrays(arrays, field_dBuV_m) ==
    LET field == arrays[field_dBuV_m]
        n == Len(field)
        E_V_per_m == [k \in 1 .. n |-> V_per_m(field[k])]
        E_squared == [k \in 1 .. n |->
                        IF IsNaN(E_V_per_m[k]) THEN NaN
                        ELSE Pow10Scaled(RMul(FromInt(2), E_V_per_m[k]))]
        P_watts == [k \in 1 .. n |-> RDiv(RMul(E_squared[k], FromInt(3 * 3)), FromInt(30))]
        a1 == allocate(allocate(arrays, "E_V_per_m", E_V_per_m), "P_watts", P_watts)
        a2 == masked_store(a1, floored_array,
                           [k \in 1 .. n |-> RLt(P_watts[k], FromInt(1))], FromInt(1))
        P_dBm == [k \in 1 .. n |-> ten_log10(RMul(a2["P_watts"][k], FromInt(1000)))]
        a3 == allocate(a2, "P_dBm", P_dBm)
    IN  allocate(a3, "P_linear", P_linear_of(P_dBm))

\* antenna_gui.create_polar_plot, the statistics of one selected dataset
create_polar_plot_stats(field_dBuV_m, iso_power_dBm) ==
    LET P_iso_linear == P_iso_linear_of(iso_power_dBm)
        P_dBm == append_first(P_dBm_of(field_dBuV_m))
        P_linear == P_linear_of(P_dBm)
        avg_power == mean(P_linear)
        efficiency == np_multiply(np_divide(avg_power, P_iso_linear), FromInt(100))
        max_dBm == PyIndex(P_dBm, argmax(P_dBm))
        min_dBm == PyIndex(P_dBm, argmin(P_dBm))
        avg_dBm == ten_log10(RMul(avg_power, FromInt(1000)))
        eff_dB == ten_log10(np_divide(efficiency, FromInt(100)))
    IN  [Max |-> max_dBm, Min |-> min_dBm, Avg |-> avg_dBm,
         Efficiency |-> efficiency, EfficiencyDB |-> eff_dB]

(***************************************************************************)
(* calculate_hpbw.  Its power array is taken in whole dB, so that the      *)
(* comparison with the half-power level is exact; three signs are kept,    *)
(* a sample sitting exactly on the half-power level having sign 0.         *)
(***************************************************************************)
\* the drop below the peak that defines the half-power level (dB)
HalfPowerDrop == 3

\* the full circle (degrees)
FullCircle == 360

\* the arc above which the other way round is reported (degrees)
HalfCircle == 180

\* np.sign
sign(x) == IF x > 0 THEN 1 ELSE IF x < 0 THEN -1 ELSE 0

\* np.argmax of an array of whole numbers: the first index of the maximum
np_argmax(P) ==
    SetMin({i \in 0 .. Len(P) - 1 :
              \A j \in 0 .. Len(P) - 1 : PyIndex(P, j) <= PyIndex(P, i)})

\* a crossing search that takes every gap between two samples for a crossing
intersections_every_gap(P, half_power_val) ==
    SortedSeq(0 .. Len(P) - 2)

\* np.where(np.diff(np.sign(P_dBm - half_power_val)))[0], ascending
intersections(P, half_power_val) ==
    SortedSeq({i \in 0 .. Len(P) - 2 :
                 sign(PyIndex(P, i + 1) - half_power_val)
                   - sign(PyIndex(P, i) - half_power_val) # 0})

\* the sort key: min(abs(angles_deg[i] - main), 360 - abs(angles_deg[i] - main))
angular_distance(angles_deg, i, main_lobe_angle) ==
    Min2(Abs(PyIndex(angles_deg, i) - main_lobe_angle),
         FullCircle - Abs(PyIndex(angles_deg, i) - main_lobe_angle))

\* an ordering that leaves the crossings in index order
sorted_by_index(inter, angles_deg, main_lobe_angle) == inter

\* sorted(intersections, key=...): Python's sort is stable, so crossings
\* of equal key stay in ascending index order
sorted_intersections(inter, angles_deg, main_lobe_angle) ==
    LET n == Len(inter)
        key(p) == angular_distance(angles_deg, inter[p], main_lobe_angle)
        before(p, q) == key(p) < key(q) \/ (key(p) = key(q) /\ p < q)
    IN  [r \in 1 .. n |->
            inter[CHOOSE p \in 1 .. n :
                     Cardinality({q \in 1 .. n : before(q, p)}) = r - 1]]

\* a beamwidth that is the plain difference of the two angles
plain_difference(hpbw) == hpbw

\* return hpbw if hpbw < 180 else 360 - hpbw
minor_arc(hpbw) == IF hpbw < HalfCircle THEN hpbw ELSE FullCircle - hpbw

\* a returned number
Number(v) == [is_none |-> FALSE, value |-> v]

\* the locals of a call that returned before sorting
NoCrossings(max_power_idx, inter) ==
    [max_power_idx |-> max_power_idx, intersections |-> inter,
     sorted_intersections |-> <<>>]

\* calculate_hpbw(angles_deg, P_dBm) for a non-empty power array: the value
\* it returns and the locals it set
calculate_hpbw(angles_deg, P_dBm) ==
    LET max_power_idx == np_argmax(P_dBm)
        max_power_val == PyIndex(P_dBm, max_power_idx)
        half_power_val == max_power_val - HalfPowerDrop
        inter == intersections(P_dBm, half_power_val)
    IN  IF Len(inter) < 2
        THEN [ret |-> None, loc |-> NoCrossings(max_power_idx, inter)]
        ELSE
        LET main_lobe_angle == PyIndex(angles_deg, max_power_idx)
            srt == sorted_intersections(inter, angles_deg, main_lobe_angle)
            locals == [max_power_idx |-> max_power_idx, intersections |-> inter,
                       sorted_intersections |-> srt]
        IN  IF Len(srt) < 2
            THEN [ret |-> None, loc |-> locals]
            ELSE
            LET angle1 == PyIndex(angles_deg, PyIndex(srt, 0))
                angle2 == PyIndex(angles_deg, PyIndex(srt, 1))
            IN  [ret |-> Number(minor_arc(Abs(angle1 - angle2))), loc |-> locals]

(***************************************************************************)
(* Raw tables the pipeline is run on.                                      *)
(***************************************************************************)
Samples == {0, 1, 2} \X {0, 1}

WinSamples == {<<1, 0>>, <<0, 0>>, <<0, 1>>}

SeqsUpTo(S, n) == UNION {[1 .. m -> S] : m \in 0 .. n}

Table(rows) == [ncols |-> 2,
                angle |-> [k \in 1 .. Len(rows) |-> rows[k][1]],
                field |-> [k \in 1 .. Len(rows) |-> rows[k][2]]]

OneColumn(rows) == [ncols |-> 1,
                    angle |-> [k \in 1 .. Len(rows) |-> rows[k][1]],
                    field |-> <<>>]

RawTables ==
    {Table(r) : r \in SeqsUpTo(Samples, MaxRows) \cup SeqsUpTo(WinSamples, MaxWinRows)}
    \cup {OneColumn(r) : r \in SeqsUpTo(WinSamples, 2)}

(***************************************************************************)
(* Specification of one pipeline run.                                      *)
(***************************************************************************)
NotRun == [data |-> None, success |-> FALSE, message |-> ""]

PipeInit ==
    /\ df \in RawTables
    /\ pc = "start"
    /\ loc = NoLocals
    /\ ret = NotRun

PipeIdle ==
    /\ df = OneColumn(<<>>)
    /\ pc = "idle"
    /\ loc = NoLocals
    /\ ret = NotRun

\* a call of process_csv_data: on a raw table ("start"), or on a table the
\* pipeline produced itself ("fed")
RunPipeline ==
    /\ pc \in {"start", "fed"}
    /\ \E minval \in MinvalChoices :
          LET r == process_csv_data(df, minval)
          IN  /\ ret' = r.ret
              /\ loc' = r.loc
    /\ pc' = IF pc = "start" THEN "done" ELSE "done again"
    /\ UNCHANGED df

\* the table pd.read_csv gives for the CSV text of a produced table
\* (out_df.to_csv(..., index=False)): four columns, the first two being
\* Angle and Field1
ReadBack(data) == [ncols |-> 4, angle |-> data.Angle, field |-> data.Field1]

\* a produced table is saved and handed to the pipeline as an input
FeedBack ==
    /\ pc = "done"
    /\ ret.success
    /\ df' = ReadBack(ret.data)
    /\ pc' = "fed"
    /\ UNCHANGED <<loc, ret>>

(***************************************************************************)
(* Specification of the two statistics engines on one dataset.             *)
(***************************************************************************)
\* cells of a field column (dBuV/m) as pandas reads them: three strengths
\* whose powers are exact on the model's scale, -30 lying below the floor
\* and -20 and -10 above it, and nan, which is what an empty cell is read as
FieldLevels == {FromInt(-30), FromInt(-20), FromInt(-10), NaN}

\* reference powers (dBm); the linear value of the last one is 0.0
IsoLevels == {-120, -110, -3300}

Datasets == UNION {[1 .. n -> FieldLevels] : n \in 1 .. MaxSamples}

NotReported == [done |-> FALSE]

MetricsInit ==
    /\ m_field \in Datasets
    /\ m_angles = [k \in 1 .. Len(m_field) |-> (k - 1) * 90]
    /\ m_iso \in IsoLevels
    /\ m_web = NotReported
    /\ m_desk = NotReported
    /\ m_arrays = ColumnArrays(m_angles, m_field)

MetricsIdle ==
    /\ m_field = <<>>
    /\ m_angles = <<>>
    /\ m_iso = 0
    /\ m_web = NotReported
    /\ m_desk = NotReported
    /\ m_arrays = ColumnArrays(<<>>, <<>>)

\* the Streamlit visualizer computes the statistics of the dataset
WebStatistics ==
    /\ ~m_web.done
    /\ m_web' = [done |-> TRUE,
                 metrics |-> calculate_polarization_metrics(m_arrays["df.Angle"],
                                                            m_arrays["df.Field"], m_iso)]
    /\ m_arrays' = metrics_arrays(m_arrays, "df.Field")
    /\ UNCHANGED <<m_angles, m_field, m_iso, m_desk>>

\* the desktop GUI computes the legend statistics of the dataset
DesktopStatistics ==
    /\ ~m_desk.done
    /\ m_desk' = [done |-> TRUE, stats |-> create_polar_plot_stats(m_field, m_iso)]
    /\ UNCHANGED <<m_angles, m_field, m_iso, m_web, m_arrays>>

(***************************************************************************)
(* The batch loops.  A file name is the sequence of its parts, the last    *)
(* being the extension; a file is a name and a content, and a content is   *)
(* either unreadable (pd.read_csv raises: empty or malformed) or a table.  *)
(***************************************************************************)
Unreadable == [readable |-> FALSE, table |-> OneColumn(<<>>)]

Readable(t) == [readable |-> TRUE, table |-> t]

\* a double sweep, a single sweep, a one-column file, a sweep whose reset
\* is its last row, and a file that is no CSV
BatchContents ==
    {Readable(Table(<<<<0, 0>>, <<1, 1>>, <<0, 1>>, <<1, 0>>>>)),
     Readable(Table(<<<<0, 0>>, <<1, 1>>>>)),
     Readable(OneColumn(<<<<0, 0>>>>)),
     Readable(Table(<<<<1, 0>>, <<0, 1>>>>)),
     Unreadable}

UploadNames == {<<"a", ".csv">>, <<"b", ".csv">>}

\* names in the folder: a raw file, a raw file whose extension is in upper
\* case, and the output an earlier run wrote for the first one
FolderNames == {<<"a", ".csv">>, <<"b", ".CSV">>, <<"a", "_processed", ".csv">>}

\* f.lower().endswith('.csv')
lower_endswith_csv(name) == name[Len(name)] \in {".csv", ".CSV"}

\* filename.replace('.csv', '_processed.csv')
RECURSIVE replace_csv(_)
replace_csv(name) ==
    IF name = <<>> THEN <<>>
    ELSE (IF Head(name) = ".csv" THEN <<"_processed", ".csv">> ELSE <<Head(name)>>)
         \o replace_csv(Tail(name))

\* the table pd.read_csv gives for a file the pipeline wrote
WrittenTable(data) ==
    [ncols |-> 4, angle |-> data.Angle, field |-> data.Field1,
     Field2 |-> data.Field2, TotalField |-> data.TotalField]

\* np.diff(a)
np_diff(a) == [i \in 1 .. Len(a) - 1 |-> a[i + 1] - a[i]]

\* d = np.diff(angles); brk_indices = np.where(d < 0)[0], as the desktop
\* script has it: the ascending array of the 0-based positions of d below 0
desktop_brk_indices(angles) ==
    LET d == np_diff(angles)
    IN  SortedSeq({j - 1 : j \in {i \in 1 .. Len(d) : d[i] < 0}})

\* a break taken from the other end of the array of candidates
desktop_brk_last(indices) == PyIndex(indices, -1)

\* brk = brk_indices[0] of the desktop script
desktop_brk(indices) == PyIndex(indices, 0)

\* the desktop script's cleanup loop after its passes k = 1 .. n:
\* if ang2[k] == ang2[k-1] and f2_dBuV_m[k] == f2_dBuV_m[k-1]: keep[k] = False
RECURSIVE desktop_keep_loop(_, _, _)
desktop_keep_loop(ang2, f2, n) ==
    IF n <= 0 THEN [k \in 0 .. Len(ang2) - 1 |-> TRUE]
    ELSE LET keep == desktop_keep_loop(ang2, f2, n - 1)
         IN  IF /\ PyIndex(ang2, n) = PyIndex(ang2, n - 1)
                /\ PyIndex(f2, n) = PyIndex(f2, n - 1)
             THEN [keep EXCEPT ![n] = FALSE]
             ELSE keep

\* keep = np.ones(len(ang2), dtype=bool); for k in range(1, min(5, len(ang2))): ...
desktop_keep(ang2, f2) == desktop_keep_loop(ang2, f2, Min2(5, Len(ang2)) - 1)

\* one pass of the loop body of process_all_csvs over a file: what it
\* printed and, when it wrote one, the output table
process_all_csvs_body(content, minval) ==
    IF ~content.readable
    THEN [printed |-> "Error processing", wrote |-> FALSE, data |-> None]
    ELSE
    LET d == content.table
    IN  IF d.ncols < 2
        THEN [printed |-> "Skipping: fewer than 2 columns", wrote |-> FALSE, data |-> None]
        ELSE
        LET angles == d.angle
            f1_dBuV_m == d.field
            indices == desktop_brk_indices(angles)
        IN  IF Len(indices) = 0
            THEN [printed |-> "No clear sweep break found. Skipping.",
                  wrote |-> FALSE, data |-> None]
            ELSE
            LET brk == desktop_brk(indices)
                ang1 == PySlice(angles, 0, brk + 1)
                f1 == PySlice(f1_dBuV_m, 0, brk + 1)
                ang2 == PySlice(angles, brk + 1, Len(angles))
                f2_dBuV_m == PySlice(f1_dBuV_m, brk + 1, Len(f1_dBuV_m))
                keep == desktop_keep(ang2, f2_dBuV_m)
                df2_mean == groupby_mean(Masked(ang2, keep), Masked(f2_dBuV_m, keep))
                interp == interp1d(df2_mean.angle, df2_mean.field, ang1, minval)
            IN  IF interp.raised
                THEN [printed |-> "Error processing", wrote |-> FALSE, data |-> None]
                ELSE
                LET f2_on_1 == interp.y_new
                    f1_V_per_m == [k \in 1 .. Len(f1) |->
                                     RDiv(RSub(FromInt(f1[k]), FromInt(120)), FromInt(20))]
                    f2_V_per_m == [k \in 1 .. Len(f2_on_1) |->
                                     RDiv(RSub(f2_on_1[k], FromInt(120)), FromInt(20))]
                    total_dBuV_m == [k \in 1 .. Len(ang1) |->
                                       pythagorean_dB(f1_V_per_m[k], f2_V_per_m[k])]
                IN  [printed |-> "Wrote", wrote |-> TRUE,
                     data |-> DataFrame(ang1, f1, f2_on_1, total_dBuV_m)]

\* what a folder's file may hold: any of the contents above, or the table
\* an earlier run wrote for the double sweep
FolderContents ==
    BatchContents \cup
    {Readable(WrittenTable(
        process_all_csvs_body(
            Readable(Table(<<<<0, 0>>, <<1, 1>>, <<0, 1>>, <<1, 0>>>>)), 2).data))}

NoDict == <<>>

\* all_files = list(uploaded_files); all_files.extend(url_files);
\* all_files.extend(zip_files)
AllFiles(uploaded, from_urls, from_zip) == uploaded \o from_urls \o from_zip

\* a file object nothing has read yet
Fresh(name, content) == [name |-> name, content |-> content, consumed |-> FALSE]

StreamlitBatchInit ==
    /\ uploaded_files \in UNION {[1 .. n -> {Fresh(nm, c) : nm \in UploadNames,
                                                            c \in BatchContents}] :
                                   n \in 1 .. MaxFiles}
    /\ url_files = <<>>
    /\ zip_files = <<>>
    /\ all_files = AllFiles(uploaded_files, url_files, zip_files)
    /\ s_pc = "idle"
    /\ s_idx = 0
    /\ results = NoDict
    /\ session_results = None

StreamlitIdle ==
    /\ all_files = <<>>
    /\ uploaded_files = <<>>
    /\ url_files = <<>>
    /\ zip_files = <<>>
    /\ s_pc = "idle"
    /\ s_idx = 0
    /\ results = NoDict
    /\ session_results = None

\* the script is not in the middle of a run: it has not been run yet or has
\* rendered its page, has stored its results, or was ended by an exception
BetweenRuns == s_pc \in {"idle", "done", "crashed"}

\* if st.button("Process All Files"): results = {}
\* (the click runs the script again from the top, which puts all_files
\* together again from the three sources)
ClickProcessAll ==
    /\ BetweenRuns
    /\ AllFiles(uploaded_files, url_files, zip_files) # <<>>
    /\ all_files' = AllFiles(uploaded_files, url_files, zip_files)
    /\ s_pc' = "loop"
    /\ s_idx' = 0
    /\ results' = NoDict
    /\ UNCHANGED <<session_results, uploaded_files, url_files, zip_files>>

\* the file object at position k (from 1) of all_files has been read to its
\* end; the objects of url_files and zip_files live on in the session
\* state, those of the uploader are made anew on every run
MarkRead(files, k) ==
    IF k \in 1 .. Len(files) THEN [files EXCEPT ![k].consumed = TRUE] ELSE files

\* one pass of: for idx, uploaded_file in enumerate(all_files)
StreamlitIteration ==
    /\ s_pc = "loop"
    /\ s_idx < Len(all_files)
    /\ LET uploaded_file == all_files[s_idx + 1]
       IN  IF ~uploaded_file.content.readable \/ uploaded_file.consumed
           THEN \* pd.read_csv raises outside any try (a file that is no
                \* CSV, or a buffer already read to its end: 'No columns
                \* to parse from file'): the script run ends
                /\ s_pc' = "crashed"
                /\ UNCHANGED <<s_idx, results, all_files, url_files, zip_files>>
           ELSE \E minval \in MinvalChoices :
                   LET r == process_csv_data(uploaded_file.content.table, minval).ret
                       entry == [success |-> r.success, message |-> r.message,
                                 data |-> r.data]
                   IN  /\ results' = [n \in DOMAIN results \cup {uploaded_file.name} |->
                                        IF n = uploaded_file.name THEN entry ELSE results[n]]
                       /\ all_files' = MarkRead(all_files, s_idx + 1)
                       /\ url_files' = MarkRead(url_files, s_idx + 1 - Len(uploaded_files))
                       /\ zip_files' = MarkRead(zip_files, s_idx + 1 - Len(uploaded_files)
                                                             - Len(url_files))
                       /\ s_idx' = s_idx + 1
                       /\ s_pc' = "loop"
    /\ UNCHANGED <<session_results, uploaded_files>>

\* st.session_state.results = results
StoreResults ==
    /\ s_pc = "loop"
    /\ s_idx = Len(all_files)
    /\ session_results' = [is_none |-> FALSE, dict |-> results]
    /\ s_pc' = "done"
    /\ UNCHANGED <<all_files, s_idx, results, uploaded_files, url_files, zip_files>>

(***************************************************************************)
(* A session of the Streamlit CSV processor: the events that change the    *)
(* loaded files.  Each runs the script from the top to the end of the      *)
(* page, the 'Process All Files' button not being pressed in that run.     *)
(***************************************************************************)
\* the files of a session: a double sweep and a single sweep
SessionFiles ==
    {Fresh(<<"a", ".csv">>, Readable(Table(<<<<0, 0>>, <<1, 1>>, <<0, 1>>, <<1, 0>>>>))),
     Fresh(<<"b", ".csv">>, Readable(Table(<<<<0, 0>>, <<1, 1>>>>)))}

SourceLists == UNION {[1 .. n -> SessionFiles] : n \in 0 .. MaxSource}

\* a run of the script that only renders the page for the sources given
RenderPage(uploaded, from_urls, from_zip) ==
    /\ uploaded_files' = uploaded
    /\ url_files' = from_urls
    /\ zip_files' = from_zip
    /\ all_files' = AllFiles(uploaded, from_urls, from_zip)
    /\ s_pc' = "idle"
    /\ s_idx' = 0
    /\ results' = NoDict
    /\ UNCHANGED session_results

\* the user adds files to the st.file_uploader widget or removes some
UploaderChanges ==
    /\ BetweenRuns
    /\ \E uploaded \in SourceLists \ {uploaded_files} :
          RenderPage(uploaded, url_files, zip_files)

\* load_urls_button with at least one URL that downloads:
\* st.session_state.url_files = url_files_temp
LoadUrls ==
    /\ BetweenRuns
    /\ \E url_files_temp \in SourceLists \ {<<>>} :
          RenderPage(uploaded_files, url_files_temp, zip_files)

\* load_zip_button with an archive that holds CSV files:
\* st.session_state.zip_files = extracted_files
LoadZip ==
    /\ BetweenRuns
    /\ \E extracted_files \in SourceLists \ {<<>>} :
          RenderPage(uploaded_files, url_files, extracted_files)

\* the session starts with nothing loaded and no results
SessionInit == StreamlitIdle

Orderings(S) ==
    {q \in [1 .. Cardinality(S) -> S] : \A i, j \in 1 .. Cardinality(S) : q[i] = q[j] => i = j}

DesktopBatchInit ==
    /\ \E names \in SUBSET FolderNames :
          /\ names # {}
          /\ Cardinality(names) <= MaxFiles
          /\ folder \in [names -> FolderContents]
          /\ csv_files \in Orderings({n \in names : lower_endswith_csv(n)})
    /\ d_idx = 0
    /\ d_log = <<>>

DesktopIdle ==
    /\ folder = <<>>
    /\ csv_files = <<>>
    /\ d_idx = 0
    /\ d_log = <<>>

\* one pass of the loop over the file called filename: the line printed
\* for it and the folder after it
DesktopPass(files, filename, minval) ==
    LET r == process_all_csvs_body(files[filename], minval)
        out_name == replace_csv(filename)
    IN  [entry |-> [file |-> filename, printed |-> r.printed,
                    out_name |-> IF r.wrote THEN out_name ELSE <<>>],
         folder |-> IF r.wrote
                    THEN [n \in DOMAIN files \cup {out_name} |->
                            IF n = out_name THEN Readable(WrittenTable(r.data))
                            ELSE files[n]]
                    ELSE files]

\* one pass of: for filename in csv_files
DesktopIteration ==
    /\ d_idx < Len(csv_files)
    /\ \E minval \in MinvalChoices :
          LET pass == DesktopPass(folder, csv_files[d_idx + 1], minval)
          IN  /\ d_log' = Append(d_log, pass.entry)
              /\ folder' = pass.folder
    /\ d_idx' = d_idx + 1
    /\ UNCHANGED csv_files

(***************************************************************************)
(* The two copies of the pipeline on one raw table: the table is handed    *)
(* to process_csv_data and sits, as x.csv, in the folder the desktop       *)
(* script is run on, both using the same installed interpolation library.  *)
(***************************************************************************)
CopiesInit ==
    /\ PipeInit
    /\ folder = [n \in {<<"x", ".csv">>} |-> Readable(df)]
    /\ csv_files = <<<<"x", ".csv">>>>
    /\ d_idx = 0
    /\ d_log = <<>>

BothCopies ==
    /\ pc = "start"
    /\ d_idx < Len(csv_files)
    /\ \E minval \in MinvalChoices :
          LET r == process_csv_data(df, minval)
              pass == DesktopPass(folder, csv_files[d_idx + 1], minval)
          IN  /\ ret' = r.ret
              /\ loc' = r.loc
              /\ d_log' = Append(d_log, pass.entry)
              /\ folder' = pass.folder
    /\ pc' = "done"
    /\ d_idx' = d_idx + 1
    /\ UNCHANGED <<df, csv_files>>

(***************************************************************************)
(* The visualizer's loader: load_and_process_data behind st.cache_data.    *)
(***************************************************************************)
\* a test of the name that takes any .csv file
endswith_any_csv(name) == name[Len(name)] = ".csv"

\* filename.endswith('_processed.csv')
endswith_processed_csv(name) ==
    /\ Len(name) >= 2
    /\ name[Len(name) - 1] = "_processed"
    /\ name[Len(name)] = ".csv"

\* filename.replace('_processed.csv', '') + '_totalField'
var_name_of(name) ==
    LET RECURSIVE strip(_)
        strip(n) ==
            IF Len(n) < 2 THEN n
            ELSE IF n[1] = "_processed" /\ n[2] = ".csv" THEN strip(Tail(Tail(n)))
            ELSE <<Head(n)>> \o strip(Tail(n))
    IN  strip(name) \o <<"_totalField">>

\* df.iloc[:, j].values : the column as an array of floats
values(column) == [k \in 1 .. Len(column) |-> FromInt(column[k])]

\* process_dataset
process_dataset(d, iso_power_dBm) ==
    LET angles_deg == d.angle
        vertical_field == values(d.field)
        horizontal_field == values(d.Field2)
        total_field == values(d.TotalField)
        vertical == calculate_polarization_metrics(angles_deg, vertical_field, iso_power_dBm)
        horizontal == calculate_polarization_metrics(angles_deg, horizontal_field, iso_power_dBm)
        total == calculate_polarization_metrics(angles_deg, total_field, iso_power_dBm)
    IN  [df |-> d, angles_deg |-> angles_deg,
         polarizations |-> [vertical |-> vertical, horizontal |-> horizontal,
                            total |-> total]]

\* process_dataset raises on a table without rows: np.max of an empty array
process_dataset_raises(d) == Len(d.angle) = 0

\* the body of load_and_process_data: data_dict and skipped_files after the
\* first i files of the tuple
RECURSIVE load_upto(_, _, _)
load_upto(files, iso_power_dBm, i) ==
    IF i = 0 THEN [data_dict |-> <<>>, skipped_files |-> <<>>]
    ELSE
    LET before == load_upto(files, iso_power_dBm, i - 1)
        uploaded_file == files[i]
        filename == uploaded_file.name
        skip(reason) ==
            [before EXCEPT !.skipped_files =
                Append(@, [file |-> filename, reason |-> reason])]
    IN  IF ~endswith_processed_csv(filename)
        THEN skip("Does not end with _processed.csv")
        ELSE IF ~uploaded_file.content.readable
        THEN skip("File is empty")
        ELSE IF uploaded_file.content.table.ncols < 4
        THEN skip("Only column(s) found (need 4)")
        ELSE IF process_dataset_raises(uploaded_file.content.table)
        THEN skip("Error: zero-size array to reduction operation maximum")
        ELSE [before EXCEPT !.data_dict =
                [v \in DOMAIN before.data_dict \cup {var_name_of(filename)} |->
                    IF v = var_name_of(filename)
                    THEN process_dataset(uploaded_file.content.table, iso_power_dBm)
                    ELSE before.data_dict[v]]]

load_and_process_data(files, iso_power_dBm) ==
    load_upto(files, iso_power_dBm, Len(files))

\* a key that is the same for every call
cache_key_shared(files, iso_power_dBm) == <<0>>

\* the key st.cache_data files a call under: the arguments whose names do
\* not start with an underscore, so iso_power_dBm alone
cache_key(files, iso_power_dBm) == <<iso_power_dBm>>

ProcessedTable(a, f1, f2, t) ==
    [ncols |-> 4, angle |-> a, field |-> f1, Field2 |-> f2, TotalField |-> t]

\* two measurements saved under the same name, and a three-column file
VisualizerFiles ==
    {[name |-> <<"x", "_processed", ".csv">>,
      content |-> Readable(ProcessedTable(<<0, 90>>, <<-20, -10>>, <<-30, -20>>, <<-10, -10>>))],
     [name |-> <<"x", "_processed", ".csv">>,
      content |-> Readable(ProcessedTable(<<0, 90>>, <<-10, -20>>, <<-20, -20>>, <<-20, -10>>))],
     [name |-> <<"y", "_processed", ".csv">>,
      content |-> Readable([ncols |-> 3, angle |-> <<0, 90>>, field |-> <<-20, -10>>,
                            Field2 |-> <<-30, -20>>, TotalField |-> <<>>])]}

\* the files a list handed to the loader is made of: those, a raw file
\* (its name does not end in _processed.csv), an empty file and a file
\* that has its four column names and no rows
LoaderFiles ==
    VisualizerFiles \cup
    {[name |-> <<"z", ".csv">>,
      content |-> Readable(ProcessedTable(<<0, 90>>, <<-20, -10>>, <<-30, -20>>, <<-10, -10>>))],
     [name |-> <<"e", "_processed", ".csv">>, content |-> Unreadable],
     [name |-> <<"h", "_processed", ".csv">>,
      content |-> Readable(ProcessedTable(<<>>, <<>>, <<>>, <<>>))]}

LoaderTuples == UNION {[1 .. n -> LoaderFiles] : n \in 1 .. MaxList}

FileTuples == UNION {[1 .. n -> VisualizerFiles] : n \in 1 .. MaxLoad}

NothingLoaded == [data_dict |-> <<>>, skipped_files |-> <<>>]

CacheInit ==
    /\ cache = <<>>
    /\ req_files = <<>>
    /\ req_iso = 0
    /\ called = FALSE
    /\ returned = NothingLoaded
    /\ hit = FALSE

CacheIdle == CacheInit

\* a run of main with a non-empty file list and a reference power:
\* data_dict, skipped_files = load_and_process_data(tuple(all_files), iso_power)
MainLoads(files, iso_power) ==
    LET key == cache_key(files, iso_power)
    IN  /\ req_files' = files
        /\ req_iso' = iso_power
        /\ called' = TRUE
        /\ hit' = (key \in DOMAIN cache)
        /\ IF key \in DOMAIN cache
           THEN /\ returned' = cache[key]
                /\ UNCHANGED cache
           ELSE LET value == load_and_process_data(files, iso_power)
                IN  /\ returned' = value
                    /\ cache' = [k \in DOMAIN cache \cup {key} |->
                                   IF k = key THEN value ELSE cache[k]]

\* the reference powers (dBm) the user moves between from run to run
RequestedPowers == {-120, -110}

LoadRequest ==
    \E files \in FileTuples, iso_power \in RequestedPowers : MainLoads(files, iso_power)

\* the first run of main, the store being empty, over a list of any files
FirstLoad ==
    /\ ~called
    /\ \E files \in LoaderTuples, iso_power \in IsoLevels : MainLoads(files, iso_power)

(***************************************************************************)
(* Specification of one call of calculate_hpbw.                            *)
(***************************************************************************)
\* power levels (dBm): the peak, one inside the half-power band, one
\* exactly on the half-power level below the peak, one far below
PowerLevels == {0, -1, -3, -10}

\* the steps (degrees) of the evenly spaced sweeps; the widest one makes a
\* sweep of more than one turn
GridSteps == {45, 60, 120}

\* a handful of angles for short arrays in any order
LooseAngles == {0, 90, 270, 360}

AngleArrays(n) ==
    {[k \in 1 .. n |-> (k - 1) * step] : step \in GridSteps}
    \cup {[k \in 1 .. n |-> (300 + (k - 1) * 60) % FullCircle]}
    \cup (IF n <= 2 THEN [1 .. n -> LooseAngles] ELSE {})

HpbwInit ==
    /\ \E n \in 1 .. MaxHpbwLen :
          /\ h_P \in [1 .. n -> PowerLevels]
          /\ h_angles \in AngleArrays(n)
    /\ h_called = FALSE
    /\ h_loc = NoCrossings(0, <<>>)
    /\ h_ret = None

HpbwIdle ==
    /\ h_P = <<>>
    /\ h_angles = <<>>
    /\ h_called = FALSE
    /\ h_loc = NoCrossings(0, <<>>)
    /\ h_ret = None

CallHpbw ==
    /\ ~h_called
    /\ h_called' = TRUE
    /\ LET r == calculate_hpbw(h_angles, h_P)
       IN  /\ h_ret' = r.ret
           /\ h_loc' = r.loc
    /\ UNCHANGED <<h_angles, h_P>>

(***************************************************************************)
(* Specification of the field combination on two series.                   *)
(***************************************************************************)
\* cells of the two series (dBuV/m): three strengths a whole number of
\* decades of power apart, and nan
CombineLevels == {FromInt(100), FromInt(110), FromInt(120), NaN}

NotCombined == [done |-> FALSE]

CombineInit ==
    /\ \E n \in 1 .. MaxCombine :
          /\ c_a \in [1 .. n -> CombineLevels]
          /\ c_b \in [1 .. n -> CombineLevels]
    /\ c_total = NotCombined

CombineIdle ==
    /\ c_a = <<>>
    /\ c_b = <<>>
    /\ c_total = NotCombined

\* the combination with c_a as Field1 and c_b as Field2, and the other way
Combine ==
    /\ ~c_total.done
    /\ c_total' = [done |-> TRUE,
                   a_b |-> total_dBuV_m_of(c_a, c_b),
                   b_a |-> total_dBuV_m_of(c_b, c_a)]
    /\ UNCHANGED <<c_a, c_b>>

(***************************************************************************)
(* The specifications.                                                     *)
(***************************************************************************)
Init == PipeInit /\ MetricsIdle /\ StreamlitIdle /\ DesktopIdle /\ CacheIdle /\ HpbwIdle /\ CombineIdle

Next ==
    \/ RunPipeline /\ UNCHANGED <<metricVars, streamlitVars, desktopVars, cacheVars, hpbwVars, combineVars>>
    \/ FeedBack /\ UNCHANGED <<metricVars, streamlitVars, desktopVars, cacheVars, hpbwVars, combineVars>>

Spec == Init /\ [][Next]_vars

InitMetrics ==
    MetricsInit /\ PipeIdle /\ StreamlitIdle /\ DesktopIdle /\ CacheIdle /\ HpbwIdle /\ CombineIdle

NextMetrics ==
    \/ WebStatistics /\ UNCHANGED <<pipeVars, streamlitVars, desktopVars, cacheVars, hpbwVars, combineVars>>
    \/ DesktopStatistics /\ UNCHANGED <<pipeVars, streamlitVars, desktopVars, cacheVars, hpbwVars, combineVars>>

SpecMetrics == InitMetrics /\ [][NextMetrics]_vars

InitBatch ==
    /\ PipeIdle
    /\ MetricsIdle
    /\ CacheIdle
    /\ HpbwIdle
    /\ CombineIdle
    /\ \/ StreamlitBatchInit /\ DesktopIdle
       \/ DesktopBatchInit /\ StreamlitIdle

NextBatch ==
    \/ ClickProcessAll /\ UNCHANGED <<pipeVars, metricVars, desktopVars, cacheVars, hpbwVars, combineVars>>
    \/ StreamlitIteration /\ UNCHANGED <<pipeVars, metricVars, desktopVars, cacheVars, hpbwVars, combineVars>>
    \/ StoreResults /\ UNCHANGED <<pipeVars, metricVars, desktopVars, cacheVars, hpbwVars, combineVars>>
    \/ DesktopIteration /\ UNCHANGED <<pipeVars, metricVars, streamlitVars, cacheVars, hpbwVars, combineVars>>

SpecBatch == InitBatch /\ [][NextBatch]_vars

InitSession ==
    SessionInit /\ PipeIdle /\ MetricsIdle /\ DesktopIdle /\ CacheIdle /\ HpbwIdle /\ CombineIdle

NextSession ==
    \/ UploaderChanges /\ UNCHANGED <<pipeVars, metricVars, desktopVars, cacheVars, hpbwVars, combineVars>>
    \/ LoadUrls /\ UNCHANGED <<pipeVars, metricVars, desktopVars, cacheVars, hpbwVars, combineVars>>
    \/ LoadZip /\ UNCHANGED <<pipeVars, metricVars, desktopVars, cacheVars, hpbwVars, combineVars>>
    \/ ClickProcessAll /\ UNCHANGED <<pipeVars, metricVars, desktopVars, cacheVars, hpbwVars, combineVars>>
    \/ StreamlitIteration /\ UNCHANGED <<pipeVars, metricVars, desktopVars, cacheVars, hpbwVars, combineVars>>
    \/ StoreResults /\ UNCHANGED <<pipeVars, metricVars, desktopVars, cacheVars, hpbwVars, combineVars>>

SpecSession == InitSession /\ [][NextSession]_vars

InitCopies ==
    CopiesInit /\ MetricsIdle /\ StreamlitIdle /\ CacheIdle /\ HpbwIdle /\ CombineIdle

NextCopies ==
    BothCopies /\ UNCHANGED <<metricVars, streamlitVars, cacheVars, hpbwVars, combineVars>>

SpecCopies == InitCopies /\ [][NextCopies]_vars

InitCache ==
    CacheInit /\ PipeIdle /\ MetricsIdle /\ StreamlitIdle /\ DesktopIdle /\ HpbwIdle /\ CombineIdle

NextCache == LoadRequest /\ UNCHANGED <<pipeVars, metricVars, streamlitVars, desktopVars, hpbwVars, combineVars>>

SpecCache == InitCache /\ [][NextCache]_vars

InitLoad == InitCache

NextLoad ==
    FirstLoad /\ UNCHANGED <<pipeVars, metricVars, streamlitVars, desktopVars, hpbwVars, combineVars>>

SpecLoad == InitLoad /\ [][NextLoad]_vars

InitHpbw ==
    /\ HpbwInit
    /\ PipeIdle /\ MetricsIdle /\ StreamlitIdle /\ DesktopIdle /\ CacheIdle /\ CombineIdle

InitCombine ==
    /\ CombineInit
    /\ PipeIdle /\ MetricsIdle /\ StreamlitIdle /\ DesktopIdle /\ CacheIdle /\ HpbwIdle

NextCombine ==
    Combine /\ UNCHANGED <<pipeVars, metricVars, streamlitVars, desktopVars, cacheVars,
                          hpbwVars>>

SpecCombine == InitCombine /\ [][NextCombine]_vars

NextHpbw ==
    CallHpbw /\ UNCHANGED <<pipeVars, metricVars, streamlitVars, desktopVars, cacheVars,
                           combineVars>>

SpecHpbw == InitHpbw /\ [][NextHpbw]_vars

(***************************************************************************)
(* Properties of one pipeline run (checked under Spec).                    *)
(***************************************************************************)
Rows == Len(df.angle)

\* the positions (0-based) at which the raw angle column strictly decreases
Decreases == {i \in 0 .. Rows - 2 : df.angle[i + 2] < df.angle[i + 1]}

Split == pc = "done" /\ df.ncols >= 2 /\ Decreases # {}

ExactRepeat(k) == /\ loc.ang2_raw[k + 1] = loc.ang2_raw[k]
                  /\ loc.f2_raw[k + 1] = loc.f2_raw[k]

\* C3: whenever the angle column has a strict decrease, brk is the smallest
\* index whose successor angle is smaller, the first sweep is samples
\* 0..brk, the second sweep is samples brk+1..n-1, and first ++ second is
\* the input again, for the angle and for the field column.
C3_SplitAtFirstDecrease ==
    Split =>
        /\ loc.brk \in Decreases
        /\ \A i \in Decreases : loc.brk <= i
        /\ Len(loc.ang1) = loc.brk + 1
        /\ Len(loc.f1) = loc.brk + 1
        /\ Len(loc.ang2_raw) = Rows - loc.brk - 1
        /\ Len(loc.f2_raw) = Rows - loc.brk - 1
        /\ loc.ang1 \o loc.ang2_raw = df.angle
        /\ loc.f1 \o loc.f2_raw = df.field

C3_Witness ==
    /\ Split
    /\ Cardinality(Decreases) >= 2
    /\ loc.brk >= 1
    /\ Len(loc.ang2_raw) >= 2

\* C4: an angle column that never strictly decreases (increasing, with
\* equal neighbours, or constant) ends in (None, False, 'No clear sweep
\* break found'): no table is produced.
C4_NoBreakFails ==
    (pc = "done" /\ df.ncols >= 2 /\ Decreases = {}) =>
        /\ ret.data.is_none
        /\ ~ret.success
        /\ ret.message = "No clear sweep break found"

C4_Witness ==
    /\ pc = "done" /\ df.ncols >= 2 /\ Decreases = {}
    /\ Rows >= 3
    /\ \E i \in 1 .. Rows - 1 : df.angle[i + 1] = df.angle[i]
    /\ \E i \in 1 .. Rows - 1 : df.angle[i + 1] > df.angle[i]
    /\ ret.data.is_none

\* C5: every sample at position k, 1 <= k <= min(5, len-1), of the second
\* sweep that exactly repeats its predecessor is dropped (position 5
\* included).
C5_RepeatsUpToPosition5Dropped ==
    Split =>
        \A k \in 1 .. Min2(5, Len(loc.ang2_raw) - 1) :
            ExactRepeat(k) => ~loc.keep[k]

\* C6: the cleanup keeps position 0, keeps every sample at a position >= 6
\* even when it exactly repeats its predecessor, and keeps every sample
\* that is not an exact repeat of its predecessor; the cleaned sweep holds
\* exactly the kept samples.
C6_CleanupIsBounded ==
    Split =>
        /\ DOMAIN loc.keep = 0 .. Len(loc.ang2_raw) - 1
        /\ \A k \in DOMAIN loc.keep :
              (k = 0 \/ k >= 6 \/ ~ExactRepeat(k)) => loc.keep[k]
        /\ Len(loc.ang2) = Cardinality({k \in DOMAIN loc.keep : loc.keep[k]})
        /\ Len(loc.f2_dBuV_m) = Len(loc.ang2)
        /\ loc.ang2[1] = loc.ang2_raw[1]
        /\ loc.f2_dBuV_m[1] = loc.f2_raw[1]
        /\ \A k \in DOMAIN loc.keep : k >= 6 =>
              /\ loc.ang2[Len(loc.ang2) - (Len(loc.ang2_raw) - 1 - k)] = loc.ang2_raw[k + 1]
              /\ loc.f2_dBuV_m[Len(loc.ang2) - (Len(loc.ang2_raw) - 1 - k)] = loc.f2_raw[k + 1]

C6_Witness ==
    /\ Split
    /\ Len(loc.ang2_raw) >= 7
    /\ ExactRepeat(6)
    /\ loc.keep[6]
    /\ ExactRepeat(1)
    /\ ~loc.keep[1]

\* C7: a successful run returns the columns Angle, Field1, Field2,
\* TotalField in that order, all of length brk+1; Angle and Field1 are the
\* first brk+1 cells of the raw angle and field columns, and Field2 has the
\* length of the first sweep whatever the length of the second sweep.
C7_OutputTableShape ==
    (pc = "done" /\ ret.success) =>
        /\ Decreases # {}
        /\ ~ret.data.is_none
        /\ ret.data.columns = <<"Angle", "Field1", "Field2", "TotalField">>
        /\ LET b == SetMin(Decreases)
           IN  /\ Len(ret.data.Angle) = b + 1
               /\ Len(ret.data.Field1) = b + 1
               /\ Len(ret.data.Field2) = b + 1
               /\ Len(ret.data.TotalField) = b + 1
               /\ \A k \in 1 .. b + 1 :
                     /\ ret.data.Angle[k] = df.angle[k]
                     /\ ret.data.Field1[k] = df.field[k]

C7_Witness ==
    /\ pc = "done" /\ ret.success
    /\ Len(ret.data.Angle) >= 2
    /\ Len(loc.df2_mean.angle) > Len(ret.data.Angle)
    /\ Len(ret.data.Field2) = Len(ret.data.Angle)

\* the distinct angles left in the second sweep after the cleanup
DistinctAngles2 == {loc.ang2[k] : k \in 1 .. Len(loc.ang2)}

\* C8: with fewer than 2 distinct angles left in the second sweep the run
\* fails: success is False, data is None, a reason is given.
C8_TooFewAnglesFails ==
    (Split /\ Cardinality(DistinctAngles2) < 2) =>
        /\ ~ret.success
        /\ ret.data.is_none
        /\ ret.message # ""

MeanOfSamples == mean(P_linear_of(P_dBm_of(m_field)))

\* C10: the average power is the mean of the linear power over exactly the
\* dataset's n samples, converted back to dBm, and the efficiency is that
\* mean over the reference power; the Streamlit engine and the desktop GUI
\* report the same average and the same efficiency.
C10_SameAverageAndEfficiency ==
    (m_web.done /\ m_desk.done) =>
        /\ m_web.metrics.stats.Avg = ten_log10(RMul(MeanOfSamples, FromInt(1000)))
        /\ m_desk.stats.Avg = ten_log10(RMul(MeanOfSamples, FromInt(1000)))
        /\ m_desk.stats.Avg = m_web.metrics.stats.Avg
        /\ m_desk.stats.Efficiency = m_web.metrics.stats.Efficiency

(***************************************************************************)
(* Properties of the batch loops (checked under SpecBatch).                *)
(***************************************************************************)
\* the files of a batch that cannot give a table: unreadable, fewer than
\* 2 columns, or no sweep break
FailsForSure(content) ==
    \/ ~content.readable
    \/ content.table.ncols < 2
    \/ \A i \in 1 .. Len(content.table.angle) - 1 :
          content.table.angle[i + 1] >= content.table.angle[i]

\* the desktop loop has printed one line for every file, in order, and a
\* reason for every file that cannot give a table (the files the run has
\* itself written to are left out: the folder no longer holds what was read)
DesktopBatchComplete ==
    (csv_files # <<>> /\ d_idx = Len(csv_files)) =>
        /\ Len(d_log) = Len(csv_files)
        /\ \A i \in 1 .. Len(csv_files) :
              /\ d_log[i].file = csv_files[i]
              /\ (/\ FailsForSure(folder[csv_files[i]])
                  /\ \A j \in 1 .. Len(d_log) : d_log[j].out_name # csv_files[i]) =>
                    d_log[i].printed \in {"Error processing",
                                          "Skipping: fewer than 2 columns",
                                          "No clear sweep break found. Skipping."}

\* the Streamlit loop has stored an entry for every file, and a failure
\* with its reason for every file that cannot give a table
StreamlitBatchComplete ==
    /\ s_pc # "crashed"
    /\ s_pc = "done" =>
          /\ ~session_results.is_none
          /\ \A i \in 1 .. Len(all_files) :
                /\ all_files[i].name \in DOMAIN session_results.dict
                /\ (\A j \in 1 .. Len(all_files) :
                       all_files[j].name = all_files[i].name =>
                           FailsForSure(all_files[j].content))
                   => /\ ~session_results.dict[all_files[i].name].success
                      /\ session_results.dict[all_files[i].name].message # ""

\* C2: in both batch loops a failing file is recorded with its reason and
\* every other file still gets its result; the loop never aborts part-way.
C2_BatchContinuesPastFailure ==
    /\ DesktopBatchComplete
    /\ StreamlitBatchComplete

(***************************************************************************)
(* Properties of the cached loader (checked under SpecCache).              *)
(***************************************************************************)
\* C1: what a call of load_and_process_data hands back is what its body
\* computes from that call's own files and reference power; an entry of
\* the cache is reused only for the file set and the reference power that
\* filled it.
C1_ReturnedIsOfThisRequest ==
    called => returned = load_and_process_data(req_files, req_iso)

(***************************************************************************)
(* Properties of the efficiency guard (checked under SpecMetrics).         *)
(***************************************************************************)
\* the efficiency an engine owes for a mean linear power: 0 and minus
\* infinity when the reference power is not positive, the ratio otherwise
GuardedEfficiency(stats, avg_linear) ==
    IF ~RLt(FromInt(0), P_iso_linear_of(m_iso))
    THEN /\ stats.Efficiency = FromInt(0)
         /\ stats.EfficiencyDB = NegInf
    ELSE stats.Efficiency =
            RMul(RDiv(avg_linear, P_iso_linear_of(m_iso)), FromInt(100))

\* the Streamlit engine alone keeps the guard
WebEfficiencyGuard ==
    m_web.done => GuardedEfficiency(m_web.metrics.stats, MeanOfSamples)

\* C11: for a reference power whose linear value is <= 0 the statistics
\* report Efficiency (%) exactly 0 and Efficiency (dB) minus infinity, and
\* for a positive one the efficiency is (avg_linear / iso_linear) * 100, in
\* the Streamlit engine and in the desktop GUI (each with the mean it
\* reports).
C11_EfficiencyGuard ==
    /\ WebEfficiencyGuard
    /\ m_desk.done =>
          GuardedEfficiency(m_desk.stats,
                            RDiv(ten_pow(m_desk.stats.Avg), FromInt(1000)))

(***************************************************************************)
(* Properties of calculate_hpbw (checked under SpecHpbw).                  *)
(***************************************************************************)
\* the largest power of the series
PeakPower == CHOOSE m \in {h_P[k] : k \in 1 .. Len(h_P)} :
                \A k \in 1 .. Len(h_P) : h_P[k] <= m

\* the sign of a sample's power relative to the half-power level
RelativeSign(k) ==
    IF h_P[k] > PeakPower - 3 THEN "above"
    ELSE IF h_P[k] < PeakPower - 3 THEN "below" ELSE "on"

\* the positions (0-based) after which the sign changes
SignChanges == {i \in 0 .. Len(h_P) - 2 : RelativeSign(i + 1) # RelativeSign(i + 2)}

FlatSeries == \A k \in 1 .. Len(h_P) : h_P[k] = h_P[1]

\* C12: calculate_hpbw returns None, never a number, for every power series
\* with fewer than 2 sign changes of P_dBm - (max(P_dBm) - 3) between
\* consecutive samples, in particular for a flat series and for a series of
\* length 1.
C12_FewCrossingsGiveNone ==
    h_called =>
        /\ Cardinality(SignChanges) < 2 => h_ret = None
        /\ FlatSeries => h_ret = None
        /\ Len(h_P) = 1 => h_ret = None

\* a flat series of three or more samples was given and None came back
C12_Witness ==
    /\ h_called
    /\ FlatSeries
    /\ Len(h_P) >= 3
    /\ h_ret = None

\* the angle at 0-based position i
AngleAt(i) == h_angles[i + 1]

\* the angle of the peak: the first sample of largest power
PeakAngle == AngleAt(CHOOSE i \in 0 .. Len(h_P) - 1 :
                        /\ h_P[i + 1] = PeakPower
                        /\ \A j \in 0 .. i - 1 : h_P[j + 1] # PeakPower)

\* the shortest way round the circle from a crossing to the peak
CircularDistance(i) ==
    LET d == Abs(AngleAt(i) - PeakAngle)
    IN  IF d < 360 - d THEN d ELSE 360 - d

\* crossing i is taken before crossing j
Closer(i, j) ==
    \/ CircularDistance(i) < CircularDistance(j)
    \/ CircularDistance(i) = CircularDistance(j) /\ i < j

NearestCrossing == CHOOSE i \in SignChanges : \A j \in SignChanges \ {i} : Closer(i, j)

SecondNearestCrossing ==
    CHOOSE i \in SignChanges \ {NearestCrossing} :
        \A j \in SignChanges \ {NearestCrossing, i} : Closer(i, j)

\* the two crossings that come first in index order
FirstTwoCrossings ==
    LET i1 == SetMin(SignChanges)
    IN  {i1, SetMin(SignChanges \ {i1})}

AnglesWithinCircle == \A k \in 1 .. Len(h_angles) : h_angles[k] \in 0 .. 360

\* the distance between the angles of the two crossings that were used
UsedDifference ==
    Abs(AngleAt(h_loc.sorted_intersections[1]) - AngleAt(h_loc.sorted_intersections[2]))

\* C13: whenever calculate_hpbw returns a number for angles lying in
\* [0, 360], the number is the minor arc between the two crossing angles it
\* selected: |a1 - a2| when that is at most 180, 360 - |a1 - a2| otherwise,
\* and so lies between 0 and 180.
C13_MinorArc ==
    (h_called /\ h_ret # None /\ AnglesWithinCircle) =>
        /\ h_ret.value = IF UsedDifference <= 180 THEN UsedDifference
                          ELSE 360 - UsedDifference
        /\ h_ret.value \in 0 .. 180

\* two crossings more than half a turn apart were used and the way round
\* the other side was returned
C13_Witness ==
    /\ h_called
    /\ h_ret # None
    /\ AnglesWithinCircle
    /\ UsedDifference > 180
    /\ h_ret.value = 360 - UsedDifference

\* C19: when at least 2 crossings exist, the two used for HPBW are the two
\* of smallest circular angular distance to the peak angle, ties going to
\* the lower index, and not the first two in index order.
C19_CrossingsNearestThePeak ==
    (h_called /\ Cardinality(SignChanges) >= 2) =>
        /\ h_loc.sorted_intersections[1] = NearestCrossing
        /\ h_loc.sorted_intersections[2] = SecondNearestCrossing
        /\ h_ret = Number(LET d == Abs(AngleAt(NearestCrossing)
                                         - AngleAt(SecondNearestCrossing))
                           IN  IF d < 180 THEN d ELSE 360 - d)

\* side-lobe crossings come first in index order and the two crossings of
\* the main lobe, further on, were used
C19_Witness ==
    /\ h_called
    /\ Cardinality(SignChanges) >= 4
    /\ FirstTwoCrossings \cap {NearestCrossing, SecondNearestCrossing} = {}
    /\ h_loc.sorted_intersections[1] = NearestCrossing
    /\ h_loc.sorted_intersections[2] = SecondNearestCrossing
    /\ \A i \in FirstTwoCrossings : i < NearestCrossing /\ i < SecondNearestCrossing

(***************************************************************************)
(* Properties of the power floor (checked under SpecMetrics).              *)
(***************************************************************************)
\* a power in dBm is a number and is not below 10 * log10(1e-15 * 1000)
AtLeastFloor(P) ==
    /\ ~IsNaN(ten_pow(P))
    /\ ~RLt(ten_pow(P), FromInt(1000))

\* every power of a report is at or above the floor, and the range is a
\* number that is not negative
FlooredReport ==
    /\ m_web.done =>
          /\ \A k \in 1 .. Len(m_web.metrics.P_dBm) : AtLeastFloor(m_web.metrics.P_dBm[k])
          /\ AtLeastFloor(m_web.metrics.stats.Min)
          /\ ~IsNaN(ten_pow(m_web.metrics.stats.Range))
          /\ ~RLt(ten_pow(m_web.metrics.stats.Range), FromInt(1))
    /\ m_desk.done => AtLeastFloor(m_desk.stats.Min)

\* no cell of the field column is nan
EveryCellANumber == \A k \in 1 .. Len(m_field) : ~IsNaN(m_field[k])

C15_DatasetNotMutated ==
    /\ m_arrays["df.Angle"] = m_angles
    /\ m_arrays["df.Field"] = m_field
    /\ m_web.done =>
          /\ {"df.Angle", "df.Field", "P_watts", "P_dBm"} \subseteq DOMAIN m_arrays
          /\ m_arrays["P_dBm"] = m_web.metrics.P_dBm

\* the floor was stored into a cell of P_watts whose field cell is still
\* what it was
C15_Witness ==
    /\ m_web.done
    /\ \E k \in 1 .. Len(m_field) :
          /\ m_field[k] = FromInt(-30)
          /\ m_arrays["df.Field"][k] = FromInt(-30)
          /\ m_arrays["P_watts"][k] = FromInt(1)

(***************************************************************************)
(* Properties of the memoised loader across reference powers (checked      *)
(* under SpecCache).                                                       *)
(***************************************************************************)
\* the efficiency of a stats record is relative to a reference power
EfficiencyUnder(stats, iso_power_dBm) ==
    LET avg_linear == RDiv(ten_pow(stats.Avg), FromInt(1000))
        iso_linear == P_iso_linear_of(iso_power_dBm)
    IN  IF ~RLt(FromInt(0), iso_linear)
        THEN stats.Efficiency = FromInt(0)
        ELSE stats.Efficiency = RMul(RDiv(avg_linear, iso_linear), FromInt(100))

\* every statistic of a loader result is relative to a reference power
RelativeTo(value, iso_power_dBm) ==
    \A v \in DOMAIN value.data_dict :
        /\ EfficiencyUnder(value.data_dict[v].polarizations.vertical.stats, iso_power_dBm)
        /\ EfficiencyUnder(value.data_dict[v].polarizations.horizontal.stats, iso_power_dBm)
        /\ EfficiencyUnder(value.data_dict[v].polarizations.total.stats, iso_power_dBm)

\* C16: cached entries for different reference powers do not disturb one
\* another: whatever requests for other powers come in between, an entry
\* stays what it was when it was first computed, and every request is
\* answered with the entry of its own power, whose efficiencies are relative
\* to that power.
C16_PowersDoNotDisturbOneAnother ==
    /\ [](called =>
            /\ cache_key(req_files, req_iso) \in DOMAIN cache
            /\ returned = cache[cache_key(req_files, req_iso)]
            /\ RelativeTo(returned, req_iso))
    /\ [][\A k \in DOMAIN cache : k \in DOMAIN cache' /\ cache'[k] = cache[k]]_vars

\* a request under -120 dBm was answered from the store while the store
\* also holds an entry computed under -110 dBm, and the answer is relative
\* to -120 dBm and not to -110 dBm
C16_Witness ==
    /\ called
    /\ hit
    /\ req_iso = -120
    /\ <<-110>> \in DOMAIN cache
    /\ DOMAIN returned.data_dict # {}
    /\ RelativeTo(returned, -120)
    /\ ~RelativeTo(returned, -110)

(***************************************************************************)
(* Properties of the loader's skips (checked under SpecLoad).              *)
(***************************************************************************)
\* a file the loader can make a dataset of: named ..._processed.csv,
\* readable, of 4 columns or more and of one row or more
Loadable(f) ==
    /\ Len(f.name) >= 2
    /\ f.name[Len(f.name) - 1] = "_processed"
    /\ f.name[Len(f.name)] = ".csv"
    /\ f.content.readable
    /\ f.content.table.ncols >= 4
    /\ Len(f.content.table.angle) >= 1

\* the names of the files of the list that are not loadable, in list order
NamesToSkip ==
    LET bad == SelectSeq(req_files, LAMBDA f : ~Loadable(f))
    IN  [k \in 1 .. Len(bad) |-> bad[k].name]

\* the positions of the loadable files of the list
LoadablePositions == {i \in 1 .. Len(req_files) : Loadable(req_files[i])}

\* C17: in load_and_process_data a file with fewer than 4 columns is a
\* skip, not a crash: it is appended to skipped_files with a reason and is
\* not in data_dict; so are a file whose name does not end in
\* _processed.csv, an empty file and a file whose processing raises; and
\* the files after it in the list are still loaded.
C17_BadFilesAreSkipped ==
    called =>
        /\ [k \in 1 .. Len(returned.skipped_files) |-> returned.skipped_files[k].file]
             = NamesToSkip
        /\ \A k \in 1 .. Len(returned.skipped_files) :
              returned.skipped_files[k].reason # ""
        /\ DOMAIN returned.data_dict =
              (IF LoadablePositions = {} THEN {} ELSE {<<"x", "_totalField">>})
        /\ LoadablePositions # {} =>
              LET last == CHOOSE i \in LoadablePositions :
                              \A j \in LoadablePositions : j <= i
              IN  returned.data_dict[<<"x", "_totalField">>].df
                      = req_files[last].content.table

\* a three-column file came first, an empty file second and a good file
\* third: two skips were recorded and the third file was loaded
C17_Witness ==
    /\ called
    /\ Len(req_files) = 3
    /\ req_files[1].content.readable /\ req_files[1].content.table.ncols = 3
    /\ ~req_files[2].content.readable
    /\ Loadable(req_files[3])
    /\ Len(returned.skipped_files) = 2
    /\ returned.data_dict[<<"x", "_totalField">>].df = req_files[3].content.table

(***************************************************************************)
(* Properties of the duplicate-angle averaging (checked under Spec).       *)
(***************************************************************************)
\* the rows (1-based) of the cleaned second sweep recorded at an angle
RowsAt(a) == {k \in 1 .. Len(loc.ang2) : loc.ang2[k] = a}

\* the sum of the cleaned second sweep's fields over a set of rows, the
\* rows being taken in no particular order
RECURSIVE FieldSum(_)
FieldSum(R) ==
    IF R = {} THEN 0
    ELSE LET k == CHOOSE k \in R : TRUE
         IN  loc.f2_dBuV_m[k] + FieldSum(R \ {k})

\* C20: after duplicate-angle averaging the second sweep handed to the
\* interpolator has one row per distinct angle, in strictly increasing angle
\* order, and the field of each angle is the arithmetic mean of all the
\* fields that survived the leading-repeat cleanup at exactly that angle,
\* whatever the order of those rows.
C20_AveragedSweepIsUniqueAndSorted ==
    (pc = "done" /\ loc.brk >= 0) =>
        /\ Len(loc.df2_mean.field) = Len(loc.df2_mean.angle)
        /\ \A j \in 1 .. Len(loc.df2_mean.angle) - 1 :
              loc.df2_mean.angle[j] < loc.df2_mean.angle[j + 1]
        /\ {loc.df2_mean.angle[j] : j \in 1 .. Len(loc.df2_mean.angle)}
             = {loc.ang2[k] : k \in 1 .. Len(loc.ang2)}
        /\ \A j \in 1 .. Len(loc.df2_mean.angle) :
              LET R == RowsAt(loc.df2_mean.angle[j])
              IN  /\ loc.df2_mean.field[j][2] > 0
                  /\ loc.df2_mean.field[j][1] * Cardinality(R)
                       = FieldSum(R) * loc.df2_mean.field[j][2]

\* the cleaned second sweep comes back to an angle it has left, with
\* another field, and the two fields were averaged
C20_Witness ==
    /\ pc = "done"
    /\ loc.brk >= 0
    /\ \E i, j, k \in 1 .. Len(loc.ang2) :
          /\ i < j /\ j < k
          /\ loc.ang2[i] = loc.ang2[k]
          /\ loc.ang2[j] > loc.ang2[i]
          /\ loc.f2_dBuV_m[i] # loc.f2_dBuV_m[k]
          /\ Cardinality(RowsAt(loc.ang2[i])) = 2
          /\ \E m \in 1 .. Len(loc.df2_mean.angle) :
                /\ loc.df2_mean.angle[m] = loc.ang2[i]
                /\ loc.df2_mean.field[m] = <<1, 2>>

(***************************************************************************)
(* Properties of the field combination (checked under SpecCombine).        *)
(***************************************************************************)
\* C18: the field combination is commutative element-wise: for all field
\* series a and b of equal length, the TotalField computed from
\* (Field1 = a, Field2 = b) equals the one computed from (Field1 = b,
\* Field2 = a).
C18_CombinationCommutes ==
    c_total.done =>
        /\ Len(c_total.a_b) = Len(c_a)
        /\ \A k \in 1 .. Len(c_a) : c_total.a_b[k] = c_total.b_a[k]

\* two series that differ in a cell were combined both ways, and the cell
\* of 100 and 120 dBuV/m came out as 20 * log10(sqrt(1/100 + 1)) + 120
C18_Witness ==
    /\ c_total.done
    /\ \E k \in 1 .. Len(c_a) :
          /\ c_a[k] = FromInt(100)
          /\ c_b[k] = FromInt(120)
          /\ c_total.a_b[k] = [twenty_log10_sqrt_of |-> <<101, 100>>, plus |-> 120]
          /\ c_total.b_a[k] = c_total.a_b[k]

(***************************************************************************)
(* Properties of the resampling of sweep 2 (checked under Spec).           *)
(***************************************************************************)
\* the averaged points of the second sweep, by increasing angle
PointCount == Len(loc.df2_mean.angle)

PointAngle(j) == loc.df2_mean.angle[j]

PointField(j) == loc.df2_mean.field[j]

\* the value at t of the straight line through the points p and q
LineThrough(p, q, t) ==
    RDiv(RAdd(RMul(FromInt(PointAngle(q) - t), PointField(p)),
              RMul(FromInt(t - PointAngle(p)), PointField(q))),
         FromInt(PointAngle(q) - PointAngle(p)))

\* the piecewise-linear function through the averaged points, extended
\* beyond either end along the nearest end segment
PiecewiseLinear(t) ==
    IF \E j \in 1 .. PointCount : PointAngle(j) = t
    THEN PointField(CHOOSE j \in 1 .. PointCount : PointAngle(j) = t)
    ELSE IF t < PointAngle(1) THEN LineThrough(1, 2, t)
    ELSE IF t > PointAngle(PointCount) THEN LineThrough(PointCount - 1, PointCount, t)
    ELSE LET j == CHOOSE i \in 1 .. PointCount - 1 :
                      PointAngle(i) < t /\ t < PointAngle(i + 1)
         IN  LineThrough(j, j + 1, t)

\* C21: when the averaged second sweep has two or more points, the run
\* succeeds whatever the target angles are (none is rejected for lying
\* outside the range of the second sweep), and Field2 at every angle of the
\* first sweep is the value of the piecewise-linear function through the
\* averaged points: the point's own value at a second-sweep angle, the
\* interpolation between the two bracketing points inside the range, and
\* the extension of the nearest end segment outside it.
C21_Field2IsPiecewiseLinear ==
    (Split /\ PointCount >= 2) =>
        /\ ret.success
        /\ Len(ret.data.Field2) = Len(loc.ang1)
        /\ \A k \in 1 .. Len(loc.ang1) :
              ret.data.Field2[k] = PiecewiseLinear(loc.ang1[k])

\* a first sweep with an angle above the range of the second sweep where
\* Field2 exceeds every averaged field, and an angle that is a second-sweep
\* angle
C21_Witness ==
    /\ Split /\ PointCount >= 2 /\ ret.success
    /\ \E k \in 1 .. Len(loc.ang1) :
          /\ loc.ang1[k] > PointAngle(PointCount)
          /\ \A j \in 1 .. PointCount : RLt(PointField(j), ret.data.Field2[k])
    /\ \E k \in 1 .. Len(loc.ang1) : \E j \in 1 .. PointCount :
          loc.ang1[k] = PointAngle(j)

(***************************************************************************)
(* Properties of the beamwidth search (checked under SpecHpbw).            *)
(***************************************************************************)
\* the angles of the two crossings the beamwidth was measured between
UsedAngles == {AngleAt(h_loc.sorted_intersections[1]),
               AngleAt(h_loc.sorted_intersections[2])}

LowerUsedAngle == CHOOSE a \in UsedAngles : \A b \in UsedAngles : a <= b

UpperUsedAngle == CHOOSE a \in UsedAngles : \A b \in UsedAngles : b <= a

\* the peak angle lies on the arc between the two used crossing angles
\* whose width is reported: the direct one when it is narrower than half a
\* turn, the one through 0/360 otherwise
PeakOnReportedArc ==
    IF UpperUsedAngle - LowerUsedAngle < 180
    THEN LowerUsedAngle <= PeakAngle /\ PeakAngle <= UpperUsedAngle
    ELSE PeakAngle <= LowerUsedAngle \/ UpperUsedAngle <= PeakAngle

\* C22: whenever calculate_hpbw returns a number (angles in [0, 360]), the
\* two crossings it measures between lie on opposite sides of the peak: the
\* peak angle lies on the arc between the two crossing angles whose width
\* is reported.
C22_CrossingsOnOppositeSides ==
    (h_called /\ h_ret # None /\ AnglesWithinCircle) => PeakOnReportedArc

\* the set of indices in the crossing list
CrossingList == {h_loc.intersections[k] : k \in 1 .. Len(h_loc.intersections)}

\* the sample at 0-based position i + 1 sits exactly on the half-power
\* level, with its two neighbours on opposite sides of the level: one
\* passage of the curve through the level, spread over the gaps i and i + 1
PassageThroughSample(i) ==
    /\ i + 3 <= Len(h_P)
    /\ RelativeSign(i + 2) = "on"
    /\ {RelativeSign(i + 1), RelativeSign(i + 3)} = {"above", "below"}

\* C23: each passage of the power curve through the half-power level
\* contributes exactly one index to the crossing list, also when a sample
\* equals the half-power level exactly, and HPBW is never computed from two
\* adjacent indices that belong to one and the same passage.
C23_OneIndexPerPassage ==
    h_called =>
        \A i \in 0 .. Len(h_P) - 3 :
            PassageThroughSample(i) =>
                /\ Cardinality({i, i + 1} \cap CrossingList) = 1
                /\ h_ret # None =>
                      {h_loc.sorted_intersections[1],
                       h_loc.sorted_intersections[2]} # {i, i + 1}

(***************************************************************************)
(* Properties of the batch runs (checked under SpecBatch).                 *)
(***************************************************************************)
\* the entry process_csv_data gives for the file at position i of the list
OwnEntries(i) ==
    {[success |-> r.success, message |-> r.message, data |-> r.data] :
        r \in {process_csv_data(all_files[i].content.table, minval).ret :
                 minval \in MinvalChoices}}

\* C24: after a batch run over a list of N loaded files there is exactly
\* one result per file: the results dictionary of 'Process All Files' has N
\* entries, and the entry a file is looked up under is the result of that
\* file, not that of another file with the same name.
C24_OneResultPerFile ==
    (s_pc = "done") =>
        /\ ~session_results.is_none
        /\ Cardinality(DOMAIN session_results.dict) = Len(all_files)
        /\ \A i \in 1 .. Len(all_files) :
              /\ all_files[i].name \in DOMAIN session_results.dict
              /\ session_results.dict[all_files[i].name] \in OwnEntries(i)

\* C25: the desktop batch processor never overwrites a raw input file: for
\* every file it selects (name ending in '.csv' compared without regard to
\* case) and writes a table for, the output path differs from the input
\* path and ends in '_processed.csv'.
C25_OutputIsNotTheInput ==
    \A i \in 1 .. Len(d_log) :
        d_log[i].printed = "Wrote" =>
            /\ d_log[i].out_name # d_log[i].file
            /\ endswith_processed_csv(d_log[i].out_name)

(***************************************************************************)
(* Properties of a session of the CSV processor (checked under             *)
(* SpecSession).                                                           *)
(***************************************************************************)
\* the page shows results: the script ran to its end with files loaded and
\* st.session_state.results is a non-empty dictionary
ResultsDisplayed ==
    /\ s_pc \in {"idle", "done"}
    /\ all_files # <<>>
    /\ ~session_results.is_none
    /\ DOMAIN session_results.dict # {}

LoadedNames == {all_files[i].name : i \in 1 .. Len(all_files)}

\* C26: whenever processing results are displayed or offered for download,
\* the keys of session_state.results shown are the names of the files
\* currently loaded, after any sequence of upload, URL-load, ZIP-load,
\* file-removal and 'Process All Files' events.
C26_ResultsAreOfTheLoadedFiles ==
    ResultsDisplayed => DOMAIN session_results.dict = LoadedNames

(***************************************************************************)
(* Further properties of one pipeline run (checked under Spec).            *)
(***************************************************************************)
\* the positions the cleanup loop ranges over
ScannedWindow == 1 .. Min2(5, Len(loc.ang2_raw)) - 1

\* the cleanup as the design states it, over positions 0 .. n - 1: position
\* k of the scanned window is dropped when it equals the previous kept
\* sample
RECURSIVE DesignKeep(_)
DesignKeep(n) ==
    IF n = 1 THEN [k \in {0} |-> TRUE]
    ELSE LET m == DesignKeep(n - 1)
             k == n - 1
             previous_kept == CHOOSE j \in 0 .. k - 1 :
                                  m[j] /\ \A i \in j + 1 .. k - 1 : ~m[i]
         IN  [i \in 0 .. k |->
                IF i < k THEN m[i]
                ELSE ~(/\ k \in ScannedWindow
                       /\ loc.ang2_raw[k + 1] = loc.ang2_raw[previous_kept + 1]
                       /\ loc.f2_raw[k + 1] = loc.f2_raw[previous_kept + 1])]

\* C27: the cleanup as coded (drop position k when it equals the sample at
\* position k-1, whether or not k-1 was itself dropped) keeps exactly the
\* samples the design's rule keeps (drop position k when it equals the
\* previous kept sample), for every second sweep and every k inside the
\* scanned window.
C27_CodedCleanupIsDesignCleanup ==
    Split =>
        /\ \A k \in ScannedWindow : loc.keep[k] = DesignKeep(Len(loc.ang2_raw))[k]
        /\ loc.keep = DesignKeep(Len(loc.ang2_raw))

\* a run of three equal samples: position 2 is compared with position 1,
\* which was dropped, and is dropped as well
C27_Witness ==
    /\ Split
    /\ 2 \in ScannedWindow
    /\ ExactRepeat(1) /\ ExactRepeat(2)
    /\ ~loc.keep[1] /\ ~loc.keep[2]
    /\ \E k \in ScannedWindow : loc.keep[k]

\* C28: whenever a sweep break is found (input of 2 or more rows), both
\* partitions are non-empty: the first sweep has at least 1 sample and the
\* second sweep has at least 1 sample, and a break at index 0 gives a first
\* sweep of exactly 1 sample.
C28_BothSweepsNonEmpty ==
    Split =>
        /\ Rows >= 2
        /\ Len(loc.ang1) >= 1 /\ Len(loc.f1) >= 1
        /\ Len(loc.ang2_raw) >= 1 /\ Len(loc.f2_raw) >= 1
        /\ loc.brk = 0 => Len(loc.ang1) = 1 /\ Len(loc.f1) = 1
        /\ loc.brk = Rows - 2 => Len(loc.ang2_raw) = 1 /\ Len(loc.f2_raw) = 1

\* the break is at the last possible index and the second sweep is the one
\* sample after it
C28_Witness ==
    /\ Split
    /\ Rows >= 3
    /\ loc.brk = Rows - 2
    /\ Len(loc.ang2_raw) = 1
    /\ Len(loc.ang1) = Rows - 1

(***************************************************************************)
(* Properties of produced tables handed back to the pipeline (checked     *)
(* under Spec; the desktop folder under SpecBatch).                        *)
(***************************************************************************)
NonDecreasing(a) == \A i \in 1 .. Len(a) - 1 : a[i] <= a[i + 1]

\* C29: the Angle column of every table the pipeline produces is
\* non-decreasing, and a produced table handed back to the pipeline always
\* ends in 'No clear sweep break found': no second-generation table is ever
\* produced.
C29_NoSecondGeneration ==
    /\ (pc = "done" /\ ret.success) => NonDecreasing(ret.data.Angle)
    /\ pc = "fed" => NonDecreasing(df.angle) /\ df.ncols >= 2
    /\ pc = "done again" =>
          /\ ~ret.success
          /\ ret.data.is_none
          /\ ret.message = "No clear sweep break found"

\* a produced table of several rows, one angle repeated, was handed back
\* and rejected
C29_Witness ==
    /\ pc = "done again"
    /\ Rows >= 3
    /\ \E i \in 1 .. Rows - 1 : df.angle[i] = df.angle[i + 1]
    /\ \E i \in 1 .. Rows - 1 : df.angle[i] < df.angle[i + 1]
    /\ ret.message = "No clear sweep break found"

\* the desktop loop reads a table an earlier pass or an earlier run wrote
\* (four columns, not written to again after it was read) and skips it:
\* no '_processed_processed.csv' comes of it
DesktopSkipsItsOwnOutputs ==
    \A i \in 1 .. Len(d_log) :
        (/\ folder[d_log[i].file].readable
         /\ folder[d_log[i].file].table.ncols = 4
         /\ \A j \in i .. Len(d_log) : d_log[j].out_name # d_log[i].file) =>
            /\ d_log[i].printed = "No clear sweep break found. Skipping."
            /\ d_log[i].out_name = <<>>

(***************************************************************************)
(* Properties of the two copies of the pipeline (checked under SpecCopies).*)
(***************************************************************************)
\* what the desktop script printed for the table, and the file it wrote
DesktopLine == d_log[1]

DesktopOutput == folder[<<"x", "_processed", ".csv">>].table

\* the two copies rejected the table for the same reason
SameRejection ==
    /\ ret.data.is_none
    /\ DesktopLine.out_name = <<>>
    /\ DOMAIN folder = {<<"x", ".csv">>}
    /\ \/ /\ ret.message = "Fewer than 2 columns"
          /\ DesktopLine.printed = "Skipping: fewer than 2 columns"
       \/ /\ ret.message = "No clear sweep break found"
          /\ DesktopLine.printed = "No clear sweep break found. Skipping."
       \/ /\ ret.message = "x and y arrays must have at least 2 entries"
          /\ DesktopLine.printed = "Error processing"

\* the two copies produced the same four columns
SameTable ==
    /\ ~ret.data.is_none
    /\ DesktopLine.printed = "Wrote"
    /\ DesktopLine.out_name = <<"x", "_processed", ".csv">>
    /\ DesktopOutput.ncols = 4
    /\ DesktopOutput.angle = ret.data.Angle
    /\ DesktopOutput.field = ret.data.Field1
    /\ DesktopOutput.Field2 = ret.data.Field2
    /\ DesktopOutput.TotalField = ret.data.TotalField

\* C30: for every raw input table, the desktop process_all_csvs loop body
\* and the Streamlit process_csv_data either both reject the input (fewer
\* than 2 columns, no sweep break, or an error during alignment) or both
\* produce the same four-column table with identical Angle, Field1, Field2
\* and TotalField values.
C30_TwoCopiesAgree ==
    (pc = "done" /\ d_idx = 1) =>
        IF ret.success THEN SameTable ELSE SameRejection

\* a double sweep with a dropped leading repeat and two or more averaged
\* angles went through both copies and gave the same table of 2 or more rows
C30_Witness ==
    /\ pc = "done" /\ d_idx = 1
    /\ ret.success
    /\ SameTable
    /\ Len(ret.data.Angle) >= 2
    /\ Len(loc.df2_mean.angle) >= 2
    /\ \E k \in 1 .. Len(loc.ang2_raw) - 1 : ~loc.keep[k]

====
